---- MODULE Spec2Model ----
(***************************************************************************)
(* Model of the session orchestration engine (SessionService) together     *)
(* with the collaborators it drives: the session repository, the ffmpeg    *)
(* child process, the YouTube client calls and Node's timers.              *)
(*                                                                         *)
(* Every action is one run-to-completion step of the Node event loop: a    *)
(* public call or a callback, executed from its entry up to its first      *)
(* await that really suspends, or from the resumption of such an await to  *)
(* the next one.                                                           *)
(***************************************************************************)
EXTENDS Integers, Sequences, FiniteSets, TLC

VARIABLES
    repo,             \* SessionRepository rows: id -> [state, errorCode, broadcastId]
    events,           \* SessionRepository event log: id -> sequence of events
    terminalWrites,   \* completeSession / failSession calls received, per id
    activeSessions,   \* keys of SessionService.activeSessions
    active,           \* the ActiveSession objects (they outlive their registry entry)
    child,            \* the ffmpeg ChildProcess of each session
    killCalls,        \* child.kill(signal) calls issued, per id
    clipFile,         \* whether <tempDir>/<id>-trim.mp4 exists
    clipPrepared,     \* whether trimClip resolved for the session
    clipRemovals,     \* fs.rmSync calls on the clip, per id
    completeAttempts, \* youtubeService.transitionToComplete calls issued, per id
    graceTimer,       \* the delay(8000) timer created by stop
    startPc,          \* where each start() call is
    stopPc,           \* where the stop() call that passed the guards is
    stopReason,       \* the reason argument of that stop() call
    durations,        \* what start() resolved and handed on as the session's duration
    applied,          \* the latest direct call of a function, as its unit tests call it
    inflight,         \* progressBroadcastLifecycle calls not yet settled, per id
    pollCount,        \* poll ticks fired so far, per id
    lastCall,         \* the latest call of start() that the schema rejected, or of
                      \* stop() by the user: [op, sid, ret]
    database,         \* the DatabaseService: the sql.js database, the file at dbPath,
                      \*   transactionDepth and the transaction calls in progress
    secrets,          \* the ResilientSecretStore: the keychain entries, the fallback
                      \*   file, and the latest set and get calls
    ipc               \* the window's subscriptions to session events:
                      \*   listeners: those registered on SessionService.events, per topic
                      \*   sessionUnsubscribers: the listener each topic's unsubscribe
                      \*     function removes (0 when the map has no entry)
                      \*   listenerCount: forwarding listeners created so far
                      \*   windowDestroyed: mainWindow.isDestroyed()
                      \*   sent: events handed to mainWindow.webContents.send, in order

vars == <<repo, events, terminalWrites, activeSessions, active, child, killCalls,
          clipFile, clipPrepared, clipRemovals, completeAttempts, graceTimer, startPc,
          stopPc, stopReason, durations, applied, inflight, pollCount, lastCall, ipc,
          database, secrets>>

----------------------------------------------------------------------------
(* Bounds of the model *)

\* ids the repository hands out, in the order createSession hands them out
SessionOrder == <<"s1">>

\* the session ids the window can subscribe to: those of the repository and one
\* the repository never handed out
Topics == {SessionOrder[i] : i \in 1..Len(SessionOrder)} \cup {"unknown"}

\* subscription requests the window sends
MaxSubscriptions == 2

SessionIds == {SessionOrder[i] : i \in 1..Len(SessionOrder)}

\* poll ticks per session
MaxPolls == 1

\* ffmpeg log lines recorded per session
MaxLogs == 1

\* characters of the stream keys redactSensitive is applied to
MaxKeyLen == 5

----------------------------------------------------------------------------
(* packages/shared: the session state machine *)

SessionStates == {"idle", "preparing-clip", "provisioning-youtube", "starting-ffmpeg",
                  "testing", "live", "stopping", "completed", "failed"}

TerminalStates == {"completed", "failed"}

transitions ==
    [from \in SessionStates |->
        CASE from = "idle"                 -> {"preparing-clip", "failed"}
          [] from = "preparing-clip"       -> {"provisioning-youtube", "failed"}
          [] from = "provisioning-youtube" -> {"starting-ffmpeg", "failed"}
          [] from = "starting-ffmpeg"      -> {"testing", "failed"}
          [] from = "testing"              -> {"live", "stopping", "failed"}
          [] from = "live"                 -> {"stopping", "failed"}
          [] from = "stopping"             -> {"completed", "failed"}
          [] from = "completed"            -> {}
          [] from = "failed"               -> {}]

\* a lookup in the wrong direction
canTransitionSession_Backward(from, to) == from \in transitions[to]

canTransitionSession(from, to) == to \in transitions[from]

StreamStates == {"ready", "testing", "live", "complete"}

streamTransitions ==
    [from \in StreamStates |->
        CASE from = "ready"    -> {"testing", "live", "complete"}
          [] from = "testing"  -> {"live", "complete"}
          [] from = "live"     -> {"complete"}
          [] from = "complete" -> {}]

\* a lookup that lets a state go to itself
canTransitionStream_Reflexive(from, to) == to \in streamTransitions[from] \/ from = to

canTransitionStream(from, to) == to \in streamTransitions[from]

----------------------------------------------------------------------------
(* JavaScript numbers. A finite number is held as a count of thousandths, so
   that a clip of half a second is the integer 500; NaN, Infinity and undefined
   are values of their own. *)

\* thousandths in one unit: the milliseconds of one second
MsPerSec == 1000

Num(v) == [k |-> "num", v |-> v]

NaN == [k |-> "nan", v |-> 0]

Infinity == [k |-> "inf", v |-> 0]

undefined == [k |-> "undefined", v |-> 0]

\* an ISO date string, by the milliseconds Date.parse gives for it
DateAt(ms) == [k |-> "date", v |-> ms]

\* a string Date.parse cannot read
InvalidDate == [k |-> "invalid", v |-> 0]

\* n whole units
Whole(n) == Num(n * MsPerSec)

\* Number.isFinite
isFinite(x) == x.k = "num"

\* the truthiness "if (x)" tests
truthy(x) == x.k = "inf" \/ (x.k = "num" /\ x.v # 0)

\* a * b, up to the sign of an infinite product
times(a, b) ==
    IF a.k = "num" /\ b.k = "num" THEN Num((a.v * b.v) \div MsPerSec)
    ELSE IF a.k = "nan" \/ b.k = "nan" \/ a = Num(0) \/ b = Num(0) THEN NaN
    ELSE Infinity

\* x * 1000
toMs(x) == IF x.k = "num" THEN Num(x.v * MsPerSec) ELSE x

\* Math.floor
floor(x) == IF x.k = "num" THEN Num((x.v \div MsPerSec) * MsPerSec) ELSE x

\* a minimum that is the first element
min_First(xs) == xs[1]

\* Math.min of a non-empty sequence of finite numbers
RECURSIVE min(_)
min(xs) ==
    IF Len(xs) = 1 THEN xs[1]
    ELSE LET rest == min(Tail(xs))
         IN  IF Head(xs).v <= rest.v THEN Head(xs) ELSE rest

----------------------------------------------------------------------------
(* packages/shared: the stop conditions *)

Threw(message) == [kind |-> "threw", message |-> message]

Returned(value) == [kind |-> "returned", value |-> value]

\* whether assertPositive(value) throws
assertPositive(value) == ~isFinite(value) \/ value.v <= 0

\* endAtIsoUtc is undefined, a string Date.parse cannot read, or a date given
\* as the milliseconds Date.parse returns for it; nowUtcMs is in milliseconds
ensureValidEndAt(endAtIsoUtc, nowUtcMs) ==
    IF endAtIsoUtc.k # "date" THEN Threw("Invalid endAtIsoUtc")
    ELSE Returned(Whole((endAtIsoUtc.v - nowUtcMs) \div MsPerSec))

\* a final check that lets a zero through
notPositive_ZeroPasses(effectiveDurationSec) ==
    ~isFinite(effectiveDurationSec) \/ effectiveDurationSec.v < 0

\* the final check "!Number.isFinite(d) || d <= 0"
notPositive(effectiveDurationSec) ==
    ~isFinite(effectiveDurationSec) \/ effectiveDurationSec.v <= 0

computeEffectiveDuration(input) ==
    LET clipDurationSec == input.clipDurationSec
        stop == input.stop
        repeatsDuration == times(clipDurationSec, stop.maxRepeats)
        endAtDuration == ensureValidEndAt(stop.endAtIsoUtc, input.nowUtcMs)
        c1 == IF truthy(stop.maxRepeats)
              THEN <<[reason |-> "repeats", durationSec |-> repeatsDuration]>>
              ELSE <<>>
        c2 == IF truthy(stop.maxDurationSec)
              THEN Append(c1, [reason |-> "maxDuration", durationSec |-> stop.maxDurationSec])
              ELSE c1
        candidates == IF stop.endAtIsoUtc.k # "undefined" /\ endAtDuration.kind = "returned"
                      THEN Append(c2, [reason |-> "endAt", durationSec |-> endAtDuration.value])
                      ELSE c2
        effectiveDurationSec == min([i \in 1..Len(candidates) |-> candidates[i].durationSec])
    IN  IF assertPositive(clipDurationSec)
        THEN Threw("clipDurationSec must be a positive number")
        ELSE IF truthy(stop.maxRepeats) /\ assertPositive(repeatsDuration)
        THEN Threw("duration by repeats must be a positive number")
        ELSE IF truthy(stop.maxDurationSec) /\ assertPositive(stop.maxDurationSec)
        THEN Threw("maxDurationSec must be a positive number")
        ELSE IF stop.endAtIsoUtc.k # "undefined" /\ endAtDuration.kind = "threw"
        THEN endAtDuration
        ELSE IF Len(candidates) = 0
        THEN Threw("At least one stop condition is required")
        ELSE IF notPositive(effectiveDurationSec)
        THEN Threw("Computed effective duration is not positive")
        ELSE Returned([effectiveDurationSec |-> effectiveDurationSec,
                       candidates |-> candidates])

----------------------------------------------------------------------------
(* The mutable world the service's synchronous code works on, as one record,
   so that a handler's calls can be chained in program order. *)

World ==
    [repo |-> repo, log |-> [events |-> events, ipc |-> ipc], terminalWrites |-> terminalWrites,
     activeSessions |-> activeSessions, active |-> active, child |-> child,
     killCalls |-> killCalls, clipFile |-> clipFile, clipPrepared |-> clipPrepared,
     clipRemovals |-> clipRemovals, completeAttempts |-> completeAttempts,
     graceTimer |-> graceTimer, stopPc |-> stopPc, stopReason |-> stopReason,
     durations |-> durations, applied |-> applied,
     stores |-> [database |-> database, secrets |-> secrets]]

\* the world a handler leaves behind becomes the next state; it is evaluated
\* once
Commit(w) ==
    \E world \in {w} :
        /\ repo' = world.repo
        /\ events' = world.log.events
        /\ ipc' = world.log.ipc
        /\ terminalWrites' = world.terminalWrites
        /\ activeSessions' = world.activeSessions
        /\ active' = world.active
        /\ child' = world.child
        /\ killCalls' = world.killCalls
        /\ clipFile' = world.clipFile
        /\ clipPrepared' = world.clipPrepared
        /\ clipRemovals' = world.clipRemovals
        /\ completeAttempts' = world.completeAttempts
        /\ graceTimer' = world.graceTimer
        /\ stopPc' = world.stopPc
        /\ stopReason' = world.stopReason
        /\ durations' = world.durations
        /\ applied' = world.applied
        /\ database' = world.stores.database
        /\ secrets' = world.stores.secrets

NoRow == [state |-> "absent", errorCode |-> "none", broadcastId |-> FALSE]

NoActive == [stopping |-> FALSE, finalized |-> FALSE, lastObservedStreamState |-> "undefined",
             stopTimer |-> "unset", pollTimer |-> "unset", broadcastId |-> FALSE]

NoChild == [state |-> "none", killed |-> FALSE, exit |-> "none"]

\* no duration resolved yet
NoDurations == [resolved |-> [kind |-> "none"], effectiveDurationSec |-> undefined,
                stopTimerMs |-> undefined, ffmpegDurationSec |-> undefined]

\* no function called yet
NoCall == [fn |-> "none", args |-> <<>>, result |-> "none"]

----------------------------------------------------------------------------
(* SessionRepository *)

createSession(w, s) ==
    [w EXCEPT !.repo[s] = [state |-> "idle", errorCode |-> "none", broadcastId |-> FALSE]]

updateSessionState(w, s, state) ==
    IF w.repo[s].state = "absent" THEN w
    ELSE [w EXCEPT !.repo[s].state = state]

attachYoutubeResources(w, s) ==
    IF w.repo[s].state = "absent" THEN w
    ELSE [w EXCEPT !.repo[s].broadcastId = TRUE]

completeSession(w, s) ==
    LET w1 == [w EXCEPT !.terminalWrites[s] = Append(@, "completed")]
    IN  IF w.repo[s].state = "absent" THEN w1
        ELSE [w1 EXCEPT !.repo[s].state = "completed"]

failSession(w, s, code) ==
    LET w1 == [w EXCEPT !.terminalWrites[s] = Append(@, "failed")]
    IN  IF w.repo[s].state = "absent" THEN w1
        ELSE [w1 EXCEPT !.repo[s].state = "failed", !.repo[s].errorCode = code]

\* addEvent, on the event log
addEvent(logged, s, level, code, detail) ==
    [logged EXCEPT ![s] = Append(@, [level |-> level, code |-> code, detail |-> detail])]

----------------------------------------------------------------------------
(* SessionService: private helpers *)

\* the listener the subscribe handler registers: it forwards the event to the
\* window unless the window is destroyed
forward(destroyed, event) == IF destroyed THEN <<>> ELSE <<event>>

\* events.emit(channel, event): what the listeners of the topic, run in the
\* order of their registration, send to the window
RECURSIVE emitFrom(_, _, _)
emitFrom(registered, destroyed, event) ==
    IF registered = <<>> THEN <<>>
    ELSE forward(destroyed, event) \o emitFrom(Tail(registered), destroyed, event)

emit(subscriptions, s, event) ==
    IF subscriptions.listeners[s] = <<>> THEN subscriptions
    ELSE [subscriptions EXCEPT !.sent =
             @ \o emitFrom(subscriptions.listeners[s], subscriptions.windowDestroyed, event)]

\* record, on the event log and its listeners: the event gets the next id of
\* the log and is emitted on the topic of the session
recordIn(log, s, level, code, detail) ==
    [log EXCEPT !.events = addEvent(@, s, level, code, detail),
                !.ipc = emit(@, s, [sid |-> s, id |-> Len(log.events[s]) + 1])]

record(w, s, level, code, detail) ==
    [w EXCEPT !.log = recordIn(@, s, level, code, detail)]

transition(w, s, targetState) ==
    LET current == w.repo[s]
    IN  IF current.state = "absent" THEN w
        ELSE IF current.state # targetState /\ ~canTransitionSession(current.state, targetState)
        THEN record(w, s, "warn", "INVALID_TRANSITION", targetState)
        ELSE record(updateSessionState(w, s, targetState), s, "info", "STATE_CHANGE", targetState)

clearTimer(t) == IF t = "armed" THEN "cleared" ELSE t

\* a cleanup that empties the registry: activeSessions.clear()
cleanupActive_ClearRegistry(w, s) ==
    LET w1 == [w EXCEPT !.active[s].stopTimer = clearTimer(@),
                        !.active[s].pollTimer = clearTimer(@)]
        w2 == IF w1.clipFile[s]
              THEN [w1 EXCEPT !.clipFile[s] = FALSE, !.clipRemovals[s] = @ + 1]
              ELSE w1
    IN  [w2 EXCEPT !.activeSessions = {}]

\* a cleanup that leaves the clip on disk
cleanupActive_KeepClip(w, s) ==
    [w EXCEPT !.active[s].stopTimer = clearTimer(@),
              !.active[s].pollTimer = clearTimer(@),
              !.activeSessions = @ \ {s}]

cleanupActive(w, s) ==
    LET w1 == [w EXCEPT !.active[s].stopTimer = clearTimer(@),
                        !.active[s].pollTimer = clearTimer(@)]
        w2 == IF w1.clipFile[s]
              THEN [w1 EXCEPT !.clipFile[s] = FALSE, !.clipRemovals[s] = @ + 1]
              ELSE w1
    IN  [w2 EXCEPT !.activeSessions = @ \ {s}]

\* a complete that goes through the state machine
complete_ViaTransition(w, s) ==
    IF s \notin w.activeSessions \/ w.active[s].finalized THEN w
    ELSE transition(cleanupActive([w EXCEPT !.active[s].finalized = TRUE], s), s, "completed")

complete(w, s) ==
    IF s \notin w.activeSessions \/ w.active[s].finalized THEN w
    ELSE LET w1 == [w EXCEPT !.active[s].finalized = TRUE]
             w2 == cleanupActive(w1, s)
             w3 == completeSession(w2, s)
         IN  record(w3, s, "info", "SESSION_COMPLETED", "")

\* a fail that only writes the failure
fail_NoCleanup(w, s, code) ==
    record(failSession(w, s, code), s, "error", code, "")

fail(w, s, code) ==
    LET w1 == IF s \in w.activeSessions /\ ~w.active[s].finalized
              THEN cleanupActive([w EXCEPT !.active[s].finalized = TRUE], s)
              ELSE w
        w2 == failSession(w1, s, code)
    IN  record(w2, s, "error", code, "")

----------------------------------------------------------------------------
(* The ffmpeg child process *)

\* child.kill(signal): the signal is delivered, and killed set, only while the
\* process still has a handle
kill(w, s, signal) ==
    LET w1 == [w EXCEPT !.killCalls[s] = Append(@, signal)]
    IN  IF w.child[s].state = "running"
        THEN [w1 EXCEPT !.child[s].killed = TRUE]
        ELSE w1

----------------------------------------------------------------------------
(* SessionService.stop *)

\* a stop that marks the session completed before it issues the remote transition
stopAfterGrace_CompleteFirst(w, s) ==
    IF w.active[s].broadcastId
    THEN [complete(w, s) EXCEPT !.completeAttempts[s] = @ + 1, !.stopPc[s] = "waitRemote"]
    ELSE [complete(w, s) EXCEPT !.stopPc[s] = "done"]

\* stop, from the end of the grace-window race: the remote transition is issued
\* and awaited, or complete() runs at once when there is no broadcast id
stopAfterGrace(w, s) ==
    IF w.active[s].broadcastId
    THEN [w EXCEPT !.completeAttempts[s] = @ + 1, !.stopPc[s] = "waitRemote"]
    ELSE [complete(w, s) EXCEPT !.stopPc[s] = "done"]

\* a stop for which a failed remote completion is fatal
stopCatch_Fatal(w, s) == fail(w, s, "YOUTUBE_COMPLETE_WARN")

\* stop: the catch around transitionToComplete
stopCatch(w, s) == record(w, s, "warn", "YOUTUBE_COMPLETE_WARN", "")

\* a stop that does not look the session up
stopUnknown_Never(w, s) == FALSE

\* the guard "if (!active) return false"
stopUnknown(w, s) == s \notin w.activeSessions

\* a stop guard that lets a second call through
stopAlreadyStopping_Never(w, s) == FALSE

\* a stop guard with its condition inverted
stopAlreadyStopping_Inverted(w, s) == ~w.active[s].stopping

\* the guard "if (active.stopping) return true"
stopAlreadyStopping(w, s) == w.active[s].stopping

\* a stop that leaves the timers running
stopClearTimers_Skip(w, s) == w

\* stop: clearTimeout(stopTimer) and clearInterval(pollTimer)
stopClearTimers(w, s) ==
    [w EXCEPT !.active[s].stopTimer = clearTimer(@),
              !.active[s].pollTimer = clearTimer(@)]

\* stop, from its entry to its first await
stop(w, s, reason) ==
    IF stopUnknown(w, s) THEN w
    ELSE IF stopAlreadyStopping(w, s) THEN w
    ELSE LET w1 == [w EXCEPT !.active[s].stopping = TRUE, !.stopReason[s] = reason]
             w2 == transition(w1, s, "stopping")
             w3 == record(w2, s, "info", "SESSION_STOP", reason)
             w4 == stopClearTimers(w3, s)
         IN  IF w4.child[s].state # "none" /\ ~w4.child[s].killed
             THEN [kill(w4, s, "SIGINT") EXCEPT !.graceTimer[s] = "armed",
                                                !.stopPc[s] = "waitClose"]
             ELSE stopAfterGrace(w4, s)

\* what a stop call entered in world w answers without awaiting
stopReturn(w, s) ==
    IF stopUnknown(w, s) THEN "false"
    ELSE IF stopAlreadyStopping(w, s) THEN "true"
    ELSE "pending"

----------------------------------------------------------------------------
(* SessionService.handleProcessExit *)

\* an exit handler that does not look at the registry
exitIgnoredInactive_Never(w, s) == FALSE

\* the guard "if (!active || active.finalized) return"
exitIgnoredInactive(w, s) == s \notin w.activeSessions \/ w.active[s].finalized

\* an exit handler that does not look at the stopping flag
exitIgnoredStopping_Never(w, s) == FALSE

\* the guard "if (active.stopping) return"
exitIgnoredStopping(w, s) == s \in w.activeSessions /\ w.active[s].stopping

handleProcessExit(w, s, code) ==
    IF exitIgnoredInactive(w, s) THEN w
    ELSE IF exitIgnoredStopping(w, s) THEN w
    ELSE IF code = "zero"
    THEN stop(record(w, s, "info", "FFMPEG_EXIT", ""), s, "process")
    ELSE fail(record(w, s, "error", "FFMPEG_EXIT_ERROR", ""), s, "FFMPEG_EXIT_ERROR")

----------------------------------------------------------------------------
(* SessionService.start: the poll interval's callback *)

\* the states pollStreamState reports
PolledStreamStates == {"live", "ready", "testing"}

\* how a progressBroadcastLifecycle call can settle, as its caller sees it
PollOutcomes ==
    {[kind |-> "rejected", streamState |-> "undefined", attemptedTesting |-> FALSE]}
    \cup {[kind |-> "resolved", streamState |-> st, attemptedTesting |-> at] :
             st \in PolledStreamStates, at \in BOOLEAN}

\* a .then handler that only looks at finalized
pollDiscarded_FinalizedOnly(w, s) ==
    s \notin w.activeSessions \/ w.active[s].finalized

\* the guard of the .then handler
pollDiscarded(w, s) ==
    s \notin w.activeSessions \/ w.active[s].finalized \/ w.active[s].stopping

pollThen(w, s, lifecycle) ==
    IF pollDiscarded(w, s) THEN w
    ELSE LET w1 == IF w.active[s].lastObservedStreamState # lifecycle.streamState
                   THEN record([w EXCEPT !.active[s].lastObservedStreamState =
                                             lifecycle.streamState],
                               s, "info", "YOUTUBE_STREAM_STATE", lifecycle.streamState)
                   ELSE w
         IN  IF lifecycle.streamState = "live"
             THEN transition(transition(w1, s, "testing"), s, "live")
             ELSE IF lifecycle.attemptedTesting
             THEN transition(w1, s, "testing")
             ELSE w1

pollCatch(w, s) == record(w, s, "warn", "YOUTUBE_POLL_WARN", "")

pollSettled(w, s, outcome) ==
    IF outcome.kind = "rejected" THEN pollCatch(w, s) ELSE pollThen(w, s, outcome)

----------------------------------------------------------------------------
(* SessionService.start *)

\* a catch block that only logs
startCatch_NoFail(w, s) == record(w, s, "error", "SESSION_START_FAILED", "")

\* the catch block of start
startCatch(w, s) ==
    record(failSession(w, s, "SESSION_START_FAILED"), s, "error", "SESSION_START_FAILED", "")

\* start, from its entry to the await of trimClip
startEnter(w, s) ==
    LET w1 == createSession(w, s)
        w2 == transition(w1, s, "preparing-clip")
    IN  record(w2, s, "info", "SESSION_START", "")

\* a start that provisions the remote resources before it resolves the duration
startCompute_AfterProvision(w, s, probe) ==
    attachYoutubeResources(
        [w EXCEPT !.durations[s].resolved =
            computeEffectiveDuration([clipDurationSec |-> probe.clipDurationSec,
                                      stop |-> probe.stop,
                                      nowUtcMs |-> probe.nowUtcMs])], s)

\* start, at the resolution of probeDurationSeconds: computeEffectiveDuration
\* is called with the probed duration, the stop rules of the configuration and
\* the clock
startCompute(w, s, probe) ==
    [w EXCEPT !.durations[s].resolved =
        computeEffectiveDuration([clipDurationSec |-> probe.clipDurationSec,
                                  stop |-> probe.stop,
                                  nowUtcMs |-> probe.nowUtcMs])]

\* start, from the return of computeEffectiveDuration to the await of
\* provisionForSession
startResolved(w, s) ==
    LET w0 == [w EXCEPT !.durations[s].effectiveDurationSec =
                            floor(w.durations[s].resolved.value.effectiveDurationSec)]
        w1 == transition(w0, s, "provisioning-youtube")
    IN  record(w1, s, "info", "YOUTUBE_PROVISION_START", "")

\* start, from the resolution of provisionForSession to the call of startLoopStream
startProvisioned(w, s) ==
    LET w1 == attachYoutubeResources(w, s)
        w2 == transition(w1, s, "starting-ffmpeg")
    IN  record(w2, s, "info", "FFMPEG_START", "")

\* start, from the return of startLoopStream to its own return
startRegister(w, s) ==
    LET w1 == [w EXCEPT !.child[s] = [state |-> "running", killed |-> FALSE, exit |-> "none"],
                        !.durations[s].ffmpegDurationSec = w.durations[s].effectiveDurationSec,
                        !.durations[s].stopTimerMs =
                            toMs(w.durations[s].effectiveDurationSec),
                        !.active[s] = [stopping |-> FALSE, finalized |-> FALSE,
                                       lastObservedStreamState |-> "undefined",
                                       stopTimer |-> "armed", pollTimer |-> "armed",
                                       broadcastId |-> TRUE],
                        !.activeSessions = @ \cup {s}]
    IN  record(w1, s, "info", "SESSION_RUNNING", "")

----------------------------------------------------------------------------
(* Inputs *)

\* the clock, in milliseconds, when start calls computeEffectiveDuration
Clock == 5 * MsPerSec

\* what sessionConfigSchema lets through as stop rules, one rule at a time
NoRules == [maxRepeats |-> undefined, maxDurationSec |-> undefined, endAtIsoUtc |-> undefined]

\* how probeDurationSeconds can settle, with the stop rules of the configuration:
\* a clip of one second played once, and one that is to end a second ago
ProbeOutcomes ==
    {[kind |-> "rejected"],
     [kind |-> "resolved", clipDurationSec |-> Whole(1), nowUtcMs |-> Clock,
      stop |-> [NoRules EXCEPT !.maxRepeats = Whole(1)]],
     [kind |-> "resolved", clipDurationSec |-> Whole(1), nowUtcMs |-> Clock,
      stop |-> [NoRules EXCEPT !.endAtIsoUtc = DateAt(Clock - MsPerSec)]]}

\* chunks of ffmpeg output, as sequences of characters
LogLines == {<<" ">>, <<"f", " ">>}

RECURSIVE trimStart(_)
trimStart(line) ==
    IF line # <<>> /\ Head(line) = " " THEN trimStart(Tail(line)) ELSE line

RECURSIVE trimEnd(_)
trimEnd(line) ==
    IF line # <<>> /\ line[Len(line)] = " "
    THEN trimEnd(SubSeq(line, 1, Len(line) - 1))
    ELSE line

\* String.prototype.trim
trim(line) == trimEnd(trimStart(line))

\* Strings are sequences of characters. "U" stands for the text
\* rtmp://host/app/ or rtmps://host/app/ that the first group of the two ingest
\* patterns matches, "a" and "b" for characters of the class [A-Za-z0-9_\-],
\* "." for any other character that is not white space.
TokenChars == {"a", "b"}

\* the longest run of token characters at the start of text: what the second
\* group of an ingest pattern matches
RECURSIVE token(_)
token(text) ==
    IF text # <<>> /\ Head(text) \in TokenChars
    THEN <<Head(text)>> \o token(Tail(text))
    ELSE <<>>

\* String.prototype.slice(0, 3) and slice(-3)
sliceFirst3(text) == SubSeq(text, 1, IF Len(text) < 3 THEN Len(text) ELSE 3)

sliceLast3(text) == SubSeq(text, IF Len(text) < 3 THEN 1 ELSE Len(text) - 2, Len(text))

\* the replacement callback: `${token.slice(0, 3)}***${token.slice(-3)}`
masked(key) == sliceFirst3(key) \o <<"*", "*", "*">> \o sliceLast3(key)

\* redactSensitive, on text without access_token, refresh_token or Bearer: each
\* match of an ingest pattern, from left to right, has its token masked
RECURSIVE redactSensitive(_)
redactSensitive(text) ==
    IF text = <<>> THEN <<>>
    ELSE IF Head(text) = "U" /\ token(Tail(text)) # <<>>
    THEN LET key == token(Tail(text))
         IN  <<"U">> \o masked(key)
                    \o redactSensitive(SubSeq(text, Len(key) + 2, Len(text)))
    ELSE <<Head(text)>> \o redactSensitive(Tail(text))

\* the onLog callback handed to startLoopStream
onLog(w, s, line) ==
    IF trim(line) # <<>> THEN record(w, s, "info", "FFMPEG_LOG", trim(line)) ELSE w

----------------------------------------------------------------------------
(* DatabaseService: run and transaction over the sql.js database *)

\* the rows statements can write
MaxRows == 2

\* the transaction calls that can be in progress at once
MaxDepth == 3

Rows == 1..MaxRows

\* the service after init(): an empty database, persisted; stack holds, for each
\* transaction call in progress, its isOuterTransaction; savepoint is what the
\* database held at BEGIN; persistedOpen tells whether persist ever ran while
\* a SQL transaction was open, nestedReturned whether a nested transaction of
\* the current outer one returned, discarded what the last ROLLBACK dropped
NewDatabase ==
    [mem |-> {}, file |-> {}, open |-> FALSE, savepoint |-> {}, transactionDepth |-> 0,
     stack |-> <<>>, outcome |-> "none", persistedOpen |-> FALSE, nestedReturned |-> FALSE,
     discarded |-> {}]

\* persist: db.export() written to dbPath
persist(d) == [d EXCEPT !.file = d.mem, !.persistedOpen = @ \/ d.open]

\* DatabaseService.run
dbRun(d, row) ==
    LET d1 == [d EXCEPT !.mem = @ \cup {row}]
    IN  IF d1.transactionDepth = 0 THEN persist(d1) ELSE d1

\* db.run("BEGIN TRANSACTION")
begin(d) == [d EXCEPT !.open = TRUE, !.savepoint = d.mem, !.nestedReturned = FALSE]

\* db.run("COMMIT")
commit(d) == [d EXCEPT !.open = FALSE]

\* db.run("ROLLBACK") inside its try/catch: without an open transaction the
\* statement throws and the error is dropped
rollback(d) ==
    IF d.open
    THEN [d EXCEPT !.mem = d.savepoint, !.open = FALSE, !.discarded = d.mem \ d.savepoint]
    ELSE d

\* transaction(fn), up to the call of fn
transactionEnter(d) ==
    LET isOuterTransaction == d.transactionDepth = 0
        d1 == IF isOuterTransaction THEN begin(d) ELSE d
    IN  [d1 EXCEPT !.transactionDepth = @ + 1, !.stack = Append(@, isOuterTransaction)]

Max0(n) == IF n > 0 THEN n ELSE 0

\* a catch block that commits what the transaction wrote
transactionCatch_Commit(d) ==
    LET isOuterTransaction == d.stack[Len(d.stack)]
        d1 == [d EXCEPT !.transactionDepth = Max0(@ - 1)]
        d2 == IF isOuterTransaction THEN persist(commit(d1)) ELSE d1
    IN  [d2 EXCEPT !.stack = SubSeq(@, 1, Len(@) - 1), !.outcome = "threw"]

\* transaction(fn): the catch block, up to the rethrow
transactionCatch(d) ==
    LET isOuterTransaction == d.stack[Len(d.stack)]
        d1 == [d EXCEPT !.transactionDepth = Max0(@ - 1)]
        d2 == IF isOuterTransaction THEN persist(rollback(d1)) ELSE d1
    IN  [d2 EXCEPT !.stack = SubSeq(@, 1, Len(@) - 1), !.outcome = "threw"]

\* transaction(fn), from the return of fn: COMMIT succeeds or throws
transactionReturn(d, committed) ==
    LET isOuterTransaction == d.stack[Len(d.stack)]
        d1 == [d EXCEPT !.transactionDepth = @ - 1]
    IN  IF ~isOuterTransaction
        THEN [d1 EXCEPT !.stack = SubSeq(@, 1, Len(@) - 1), !.outcome = "returned",
                        !.nestedReturned = TRUE]
        ELSE IF committed
        THEN [persist(commit(d1)) EXCEPT !.stack = SubSeq(@, 1, Len(@) - 1),
                                         !.outcome = "returned"]
        ELSE transactionCatch(d1)

----------------------------------------------------------------------------
(* ResilientSecretStore over the keychain and the fallback file *)

ProfileIds == {"p1", "p2"}

\* token sets, by their accessToken
Tokens == {[accessToken |-> "a"], [accessToken |-> "b"]}

\* JSON.stringify and JSON.parse of a token set, as sequences of characters
stringify(tokens) == <<"{", tokens.accessToken, "}">>

parse(text) == [accessToken |-> text[2]]

null == [accessToken |-> "null"]

\* primary: the keychain passwords; fallback: secrets.fallback.json; lastSet:
\* the tokens of the latest setProfileTokens that resolved, null after a
\* delete; got: the latest getProfileTokens call and its answer
NewSecrets ==
    [primary |-> [p \in ProfileIds |-> <<>>],
     fallback |-> [p \in ProfileIds |-> null],
     lastSet |-> [p \in ProfileIds |-> null],
     got |-> [profileId |-> "none", value |-> null]]

\* ResilientSecretStore.setProfileTokens: the keychain call resolves or rejects
setProfileTokens(store, profileId, tokens, primaryOk) ==
    LET written == IF primaryOk
                   THEN [store EXCEPT !.primary[profileId] = stringify(tokens)]
                   ELSE [store EXCEPT !.fallback[profileId] = tokens]
    IN  [written EXCEPT !.lastSet[profileId] = tokens]

\* KeytarSecretStore.getProfileTokens
keytarGet(store, profileId) ==
    IF store.primary[profileId] = <<>> THEN null ELSE parse(store.primary[profileId])

\* ResilientSecretStore.getProfileTokens, as the answer it resolves with
getProfileTokens(store, profileId, primaryOk) ==
    IF primaryOk /\ keytarGet(store, profileId) # null
    THEN keytarGet(store, profileId)
    ELSE store.fallback[profileId]

\* ResilientSecretStore.deleteProfileTokens
deleteProfileTokens(store, profileId, primaryOk) ==
    LET kept == IF primaryOk THEN [store EXCEPT !.primary[profileId] = <<>>] ELSE store
    IN  [kept EXCEPT !.fallback[profileId] = null, !.lastSet[profileId] = null]

----------------------------------------------------------------------------
(* Initial state: a freshly constructed service over an empty repository *)

Init ==
    /\ repo = [s \in SessionIds |-> NoRow]
    /\ events = [s \in SessionIds |-> <<>>]
    /\ terminalWrites = [s \in SessionIds |-> <<>>]
    /\ activeSessions = {}
    /\ active = [s \in SessionIds |-> NoActive]
    /\ child = [s \in SessionIds |-> NoChild]
    /\ killCalls = [s \in SessionIds |-> <<>>]
    /\ clipFile = [s \in SessionIds |-> FALSE]
    /\ clipPrepared = [s \in SessionIds |-> FALSE]
    /\ clipRemovals = [s \in SessionIds |-> 0]
    /\ completeAttempts = [s \in SessionIds |-> 0]
    /\ graceTimer = [s \in SessionIds |-> "unset"]
    /\ startPc = [s \in SessionIds |-> "none"]
    /\ stopPc = [s \in SessionIds |-> "none"]
    /\ stopReason = [s \in SessionIds |-> "none"]
    /\ durations = [s \in SessionIds |-> NoDurations]
    /\ applied = NoCall
    /\ inflight = [s \in SessionIds |-> 0]
    /\ pollCount = [s \in SessionIds |-> 0]
    /\ lastCall = [op |-> "none", sid |-> "none", ret |-> "none"]
    /\ ipc = [listeners |-> [t \in Topics |-> <<>>],
              sessionUnsubscribers |-> [t \in Topics |-> 0],
              listenerCount |-> 0,
              windowDestroyed |-> FALSE,
              sent |-> <<>>]
    /\ database = NewDatabase
    /\ secrets = NewSecrets

----------------------------------------------------------------------------
(* Actions *)

\* the id createSession hands out next
NextId(s) ==
    \E i \in 1..Len(SessionOrder) :
        /\ SessionOrder[i] = s
        /\ startPc[s] = "none"
        /\ \A j \in 1..(i - 1) : startPc[SessionOrder[j]] # "none"

\* start(config) with a configuration sessionConfigSchema.parse rejects
StartInvalid ==
    /\ lastCall' = [op |-> "start", sid |-> "none", ret |-> "threw"]
    /\ UNCHANGED <<database, secrets, ipc, repo, events, terminalWrites, activeSessions, active, child, killCalls,
                   clipFile, clipPrepared, clipRemovals, completeAttempts, graceTimer, startPc,
                   stopPc, stopReason, durations, applied, inflight, pollCount>>

\* start(config) with a valid configuration, up to the await of trimClip
StartBegin(s) ==
    /\ NextId(s)
    /\ Commit(startEnter(World, s))
    /\ startPc' = [startPc EXCEPT ![s] = "trim"]
    /\ UNCHANGED <<inflight, pollCount, lastCall>>

\* trimClip settles; on success the clip exists, on failure ffmpeg may have left
\* a partial file
TrimSettled(s, ok, leftover) ==
    /\ startPc[s] = "trim"
    /\ IF ok
       THEN /\ leftover
            /\ Commit([World EXCEPT !.clipFile[s] = TRUE, !.clipPrepared[s] = TRUE])
            /\ startPc' = [startPc EXCEPT ![s] = "probe"]
       ELSE /\ Commit(startCatch([World EXCEPT !.clipFile[s] = leftover], s))
            /\ startPc' = [startPc EXCEPT ![s] = "threw"]
    /\ UNCHANGED <<inflight, pollCount, lastCall>>

\* probeDurationSeconds settles and, when it resolved, computeEffectiveDuration
\* runs. The stop rules are those of the configuration start was called with;
\* nothing reads them before this step, so they are drawn here.
ProbeSettled(s, outcome) ==
    /\ startPc[s] = "probe"
    /\ IF outcome.kind = "rejected"
       THEN /\ Commit(startCatch(World, s))
            /\ startPc' = [startPc EXCEPT ![s] = "threw"]
       ELSE LET w1 == startCompute(World, s, outcome)
            IN  IF w1.durations[s].resolved.kind = "threw"
                THEN /\ Commit(startCatch(w1, s))
                     /\ startPc' = [startPc EXCEPT ![s] = "threw"]
                ELSE /\ Commit(startResolved(w1, s))
                     /\ startPc' = [startPc EXCEPT ![s] = "provision"]
    /\ UNCHANGED <<inflight, pollCount, lastCall>>

\* provisionForSession settles and, on success, startLoopStream is called
ProvisionSettled(s, outcome) ==
    /\ startPc[s] = "provision"
    /\ IF outcome = "ok"
       THEN /\ Commit(startRegister(startProvisioned(World, s), s))
            /\ startPc' = [startPc EXCEPT ![s] = "returned"]
       ELSE IF outcome = "spawnFail"
       THEN /\ Commit(startCatch(startProvisioned(World, s), s))
            /\ startPc' = [startPc EXCEPT ![s] = "threw"]
       ELSE /\ Commit(startCatch(World, s))
            /\ startPc' = [startPc EXCEPT ![s] = "threw"]
    /\ UNCHANGED <<inflight, pollCount, lastCall>>

\* stop(s) called by the user, with any id
ManualStop(s) ==
    /\ Commit(stop(World, s, "manual"))
    /\ lastCall' = [op |-> "stop", sid |-> s, ret |-> stopReturn(World, s)]
    /\ UNCHANGED <<startPc, inflight, pollCount>>

\* the one-shot stop timer fires
TimerFire(s) ==
    /\ active[s].stopTimer = "armed"
    /\ Commit(stop([World EXCEPT !.active[s].stopTimer = "fired"], s, "timer"))
    /\ UNCHANGED <<startPc, inflight, pollCount, lastCall>>

\* the poll interval fires and calls progressBroadcastLifecycle, for at most
\* limit ticks
PollTickUpTo(s, limit) ==
    /\ active[s].pollTimer = "armed"
    /\ pollCount[s] < limit
    /\ pollCount' = [pollCount EXCEPT ![s] = @ + 1]
    /\ inflight' = [inflight EXCEPT ![s] = @ + 1]
    /\ UNCHANGED <<database, secrets, ipc, repo, events, terminalWrites, activeSessions, active, child, killCalls,
                   clipFile, clipPrepared, clipRemovals, completeAttempts, graceTimer, startPc,
                   stopPc, stopReason, durations, applied, lastCall>>

PollTick(s) == PollTickUpTo(s, MaxPolls)

\* a progressBroadcastLifecycle call settles
PollSettled(s, outcome) ==
    /\ inflight[s] > 0
    /\ inflight' = [inflight EXCEPT ![s] = @ - 1]
    /\ Commit(pollSettled(World, s, outcome))
    /\ UNCHANGED <<startPc, pollCount, lastCall>>

\* the child writes a chunk to stdout or stderr
ChildLog(s, line) ==
    /\ child[s].state = "running"
    /\ Len(SelectSeq(events[s], LAMBDA e : e.code = "FFMPEG_LOG")) < MaxLogs
    /\ Commit(onLog(World, s, redactSensitive(line)))
    /\ UNCHANGED <<startPc, inflight, pollCount, lastCall>>

\* the child closes: onExit runs, then the close listener of a waiting stop
ChildClose(s, code) ==
    /\ child[s].state = "running"
    /\ LET w1 == [World EXCEPT !.child[s].state = "closed", !.child[s].exit = code]
           w2 == handleProcessExit(w1, s, code)
       IN  IF stopPc[s] = "waitClose"
           THEN Commit(stopAfterGrace(w2, s))
           ELSE Commit(w2)
    /\ UNCHANGED <<startPc, inflight, pollCount, lastCall>>

\* the delay(8000) of stop elapses
GraceExpire(s) ==
    /\ graceTimer[s] = "armed"
    /\ LET w1 == [World EXCEPT !.graceTimer[s] = "fired"]
           w2 == IF w1.child[s].state # "none" /\ ~w1.child[s].killed
                 THEN kill(w1, s, "SIGKILL")
                 ELSE w1
       IN  IF stopPc[s] = "waitClose"
           THEN Commit(stopAfterGrace(w2, s))
           ELSE Commit(w2)
    /\ UNCHANGED <<startPc, inflight, pollCount, lastCall>>

\* transitionToComplete settles and stop runs to its end
RemoteCompleteSettled(s, ok) ==
    /\ stopPc[s] = "waitRemote"
    /\ LET w1 == IF ok THEN World
                 ELSE stopCatch(World, s)
       IN  Commit([complete(w1, s) EXCEPT !.stopPc[s] = "done"])
    /\ UNCHANGED <<startPc, inflight, pollCount, lastCall>>

Next ==
    \/ StartInvalid
    \/ \E s \in SessionIds : StartBegin(s)
    \/ \E s \in SessionIds, ok \in BOOLEAN, leftover \in BOOLEAN : TrimSettled(s, ok, leftover)
    \/ \E s \in SessionIds, o \in ProbeOutcomes : ProbeSettled(s, o)
    \/ \E s \in SessionIds, o \in {"ok", "provisionFail", "spawnFail"} : ProvisionSettled(s, o)
    \/ \E s \in SessionIds : ManualStop(s)
    \/ \E s \in SessionIds : TimerFire(s)
    \/ \E s \in SessionIds : PollTick(s)
    \/ \E s \in SessionIds, o \in PollOutcomes : PollSettled(s, o)
    \/ \E s \in SessionIds, line \in LogLines : ChildLog(s, line)
    \/ \E s \in SessionIds, code \in {"zero", "nonzero"} : ChildClose(s, code)
    \/ \E s \in SessionIds : GraceExpire(s)
    \/ \E s \in SessionIds, ok \in BOOLEAN : RemoteCompleteSettled(s, ok)

Spec == Init /\ [][Next]_vars

\* The scheduling the event loop guarantees: an armed timer fires, and an
\* awaited remote call settles
LiveSpec ==
    /\ Spec
    /\ \A s \in SessionIds :
        /\ WF_vars(TimerFire(s))
        /\ WF_vars(GraceExpire(s))
        /\ WF_vars(\E ok \in BOOLEAN : RemoteCompleteSettled(s, ok))

----------------------------------------------------------------------------
(* The service with one more tick of the poll interval *)

LongPollNext ==
    \/ StartInvalid
    \/ \E s \in SessionIds : StartBegin(s)
    \/ \E s \in SessionIds, ok \in BOOLEAN, leftover \in BOOLEAN : TrimSettled(s, ok, leftover)
    \/ \E s \in SessionIds, o \in ProbeOutcomes : ProbeSettled(s, o)
    \/ \E s \in SessionIds, o \in {"ok", "provisionFail", "spawnFail"} : ProvisionSettled(s, o)
    \/ \E s \in SessionIds : ManualStop(s)
    \/ \E s \in SessionIds : TimerFire(s)
    \/ \E s \in SessionIds : PollTickUpTo(s, MaxPolls + 1)
    \/ \E s \in SessionIds, o \in PollOutcomes : PollSettled(s, o)
    \/ \E s \in SessionIds, line \in LogLines : ChildLog(s, line)
    \/ \E s \in SessionIds, code \in {"zero", "nonzero"} : ChildClose(s, code)
    \/ \E s \in SessionIds : GraceExpire(s)
    \/ \E s \in SessionIds, ok \in BOOLEAN : RemoteCompleteSettled(s, ok)

LongPollSpec == Init /\ [][LongPollNext]_vars

----------------------------------------------------------------------------
(* start() on its own, over the stop rules sessionConfigSchema lets through and
   the durations probeDurationSeconds can resolve with *)

\* clip durations ffprobe reports: half a second, one second, two and a half
ProbedDurations == {Num(500), Whole(1), Num(2500)}

\* stop rules: each rule absent or a positive integer, the end a valid date,
\* before or after the clock, at least one rule present
SchemaStopRules ==
    {[maxRepeats |-> r, maxDurationSec |-> d, endAtIsoUtc |-> e] :
        r \in {undefined, Whole(1), Whole(2)},
        d \in {undefined, Whole(1), Whole(3)},
        e \in {undefined} \cup {DateAt(Clock + k) : k \in {-1000, 0, 500, 2000, 2500}}}
    \ {NoRules}

StartProbeOutcomes ==
    {[kind |-> "rejected"]}
    \cup {[kind |-> "resolved", clipDurationSec |-> c, nowUtcMs |-> Clock, stop |-> r] :
             c \in ProbedDurations, r \in SchemaStopRules}

StartNext ==
    \/ StartInvalid
    \/ \E s \in SessionIds : StartBegin(s)
    \/ \E s \in SessionIds, ok \in BOOLEAN, leftover \in BOOLEAN : TrimSettled(s, ok, leftover)
    \/ \E s \in SessionIds, o \in StartProbeOutcomes : ProbeSettled(s, o)
    \/ \E s \in SessionIds, o \in {"ok", "provisionFail", "spawnFail"} : ProvisionSettled(s, o)

StartSpec == Init /\ [][StartNext]_vars

----------------------------------------------------------------------------
(* The functions of packages/shared called directly, as their unit tests call
   them, over any arguments of their types *)

\* the numbers a caller can pass
Numbers == {Infinity, Whole(-1), Num(0), Whole(1), Whole(3)}

ResolverInputs ==
    [clipDurationSec : (Numbers \ {Whole(3)}) \cup {NaN, Num(500), Num(2500)},
     stop : [maxRepeats : Numbers \cup {undefined},
             maxDurationSec : Numbers \cup {undefined},
             endAtIsoUtc : {undefined, InvalidDate}
                           \cup {DateAt(Clock + k) : k \in {-1000, 0, 500, 2500}}],
     nowUtcMs : {Clock}]

CallCanTransitionSession(from, to) ==
    /\ applied' = [fn |-> "canTransitionSession", args |-> <<from, to>>,
                   result |-> canTransitionSession(from, to)]
    /\ UNCHANGED <<database, secrets, ipc, repo, events, terminalWrites, activeSessions, active, child, killCalls,
                   clipFile, clipPrepared, clipRemovals, completeAttempts, graceTimer,
                   startPc, stopPc, stopReason, durations, inflight, pollCount, lastCall>>

CallCanTransitionStream(from, to) ==
    /\ applied' = [fn |-> "canTransitionStream", args |-> <<from, to>>,
                   result |-> canTransitionStream(from, to)]
    /\ UNCHANGED <<database, secrets, ipc, repo, events, terminalWrites, activeSessions, active, child, killCalls,
                   clipFile, clipPrepared, clipRemovals, completeAttempts, graceTimer,
                   startPc, stopPc, stopReason, durations, inflight, pollCount, lastCall>>

CallComputeEffectiveDuration(input) ==
    /\ applied' = [fn |-> "computeEffectiveDuration", args |-> input,
                   result |-> computeEffectiveDuration(input)]
    /\ UNCHANGED <<database, secrets, ipc, repo, events, terminalWrites, activeSessions, active, child, killCalls,
                   clipFile, clipPrepared, clipRemovals, completeAttempts, graceTimer,
                   startPc, stopPc, stopReason, durations, inflight, pollCount, lastCall>>

SharedNext ==
    \/ \E from \in SessionStates, to \in SessionStates : CallCanTransitionSession(from, to)
    \/ \E from \in StreamStates, to \in StreamStates : CallCanTransitionStream(from, to)
    \/ \E input \in ResolverInputs : CallComputeEffectiveDuration(input)

SharedSpec == Init /\ [][SharedNext]_vars

----------------------------------------------------------------------------
(* YoutubeService, over the answers of the remote API *)

\* a call to the remote API and the answer it got
RemoteCall(api, arg, answer) == [api |-> api, arg |-> arg, answer |-> answer]

\* what liveStreams.list answers: the streamStatus of the first item, "none"
\* when no item comes back, or a rejection
StreamAnswers == {"active", "ready", "inactive", "none", "rejected"}

\* what liveBroadcasts.transition answers
TransitionAnswers == {"ok", "rejected"}

\* the errors the remote API rejects a list or an insert with, by what their
\* message says
RemoteErrors == {"incompatible", "content", "notEnabled", "other"}

\* errorMessage(error).includes("Incompatible parameters specified in the request")
isIncompatible(answer) == answer = "incompatible"

\* normalizeYoutubeError: the eligibility explanation for a channel that is not
\* enabled for live streaming, the error itself otherwise
normalizeYoutubeError(error) ==
    IF error.message = "notEnabled" THEN [error EXCEPT !.message = "notEligible"] ELSE error

\* the error a call rejected with, and the position of the call that raised it
RemoteError(message, at) == [message |-> message, at |-> at]

pollStreamState(answer) ==
    IF answer = "rejected" THEN Threw("rejected")
    ELSE IF answer = "active" THEN Returned("live")
    ELSE IF answer = "ready" THEN Returned("ready")
    ELSE Returned("testing")

\* progressBroadcastLifecycle, given what the remote answers to its two polls
\* and to the testing and live transitions
progressBroadcastLifecycle(remote) ==
    LET poll1 == <<RemoteCall("liveStreams.list", "", remote.poll1)>>
        streamState == pollStreamState(remote.poll1)
        testing == IF streamState.kind = "returned"
                      /\ canTransitionStream(streamState.value, "testing")
                   THEN <<RemoteCall("liveBroadcasts.transition", "testing", remote.testing)>>
                   ELSE <<>>
        poll2 == <<RemoteCall("liveStreams.list", "", remote.poll2)>>
        nextState == pollStreamState(remote.poll2)
        live == IF nextState.kind = "returned" /\ canTransitionStream(nextState.value, "live")
                THEN <<RemoteCall("liveBroadcasts.transition", "live", remote.live)>>
                ELSE <<>>
    IN  IF streamState.kind = "threw"
        THEN [calls |-> poll1, outcome |-> streamState]
        ELSE IF nextState.kind = "threw"
        THEN [calls |-> poll1 \o testing \o poll2, outcome |-> nextState]
        ELSE [calls |-> poll1 \o testing \o poll2 \o live, outcome |-> Returned(undefined)]

\* the request variants of listReusableBroadcasts, in the order of the array
ListRequests ==
    << [mine |-> TRUE, broadcastStatus |-> "upcoming", broadcastType |-> "all"],
       [mine |-> TRUE, broadcastStatus |-> "upcoming", broadcastType |-> "unset"],
       [mine |-> FALSE, broadcastStatus |-> "upcoming", broadcastType |-> "all"],
       [mine |-> TRUE, broadcastStatus |-> "unset", broadcastType |-> "unset"] >>

\* a loop that carries on after any rejection
listContinues_Always(answer) == answer # "ok"

\* the condition under which the loop of listReusableBroadcasts carries on
listContinues(answer) == isIncompatible(answer)

\* the loop of listReusableBroadcasts from request i on
RECURSIVE listFrom(_, _, _)
listFrom(i, answers, lastError) ==
    IF i > Len(ListRequests)
    THEN [calls |-> <<>>, outcome |-> Threw(normalizeYoutubeError(lastError))]
    ELSE LET call == RemoteCall("liveBroadcasts.list", ListRequests[i], answers[i])
         IN  IF answers[i] = "ok"
             THEN [calls |-> <<call>>, outcome |-> Returned("broadcasts")]
             ELSE IF listContinues(answers[i])
             THEN LET rest == listFrom(i + 1, answers, RemoteError(answers[i], i))
                  IN  [rest EXCEPT !.calls = <<call>> \o @]
             ELSE [calls |-> <<call>>,
                   outcome |-> Threw(normalizeYoutubeError(RemoteError(answers[i], i)))]

listReusableBroadcasts(answers) == listFrom(1, answers, RemoteError("undefined", 0))

\* what liveBroadcasts.insert and liveStreams.insert answer: a resource, a
\* resource with fields missing, or a rejection
InsertAnswers == {"ok", "invalid"} \cup RemoteErrors

\* the body of an insert: whether it carries contentDetails
InsertBody(contentDetails) == [contentDetails |-> contentDetails]

createDraftBroadcast(answer) ==
    LET call == RemoteCall("liveBroadcasts.insert", InsertBody(TRUE), answer)
    IN  [calls |-> <<call>>,
         outcome |-> IF answer = "ok" THEN Returned("broadcast")
                     ELSE IF answer = "invalid"
                     THEN Threw(normalizeYoutubeError(RemoteError("invalidBroadcast", 1)))
                     ELSE Threw(normalizeYoutubeError(RemoteError(answer, 1)))]

\* provisionForSession, for a configuration of the given mode that carries the
\* payload of its mode, given what the remote answers to the broadcast insert,
\* to the stream insert and to the bind
provisionForSession(mode, remote) ==
    LET draft == IF mode = "create-new"
                 THEN createDraftBroadcast(remote.broadcast)
                 ELSE [calls |-> <<>>, outcome |-> Returned("broadcast")]
        insert == RemoteCall("liveStreams.insert", InsertBody(TRUE), remote.stream)
        bind == RemoteCall("liveBroadcasts.bind", "", remote.bind)
        at == Len(draft.calls) + 1
    IN  IF draft.outcome.kind = "threw"
        THEN [draft EXCEPT !.outcome = Threw(normalizeYoutubeError(@.message))]
        ELSE IF remote.stream = "invalid"
        THEN [calls |-> draft.calls \o <<insert>>,
              outcome |-> Threw(normalizeYoutubeError(RemoteError("invalidStream", at)))]
        ELSE IF remote.stream # "ok"
        THEN [calls |-> draft.calls \o <<insert>>,
              outcome |-> Threw(normalizeYoutubeError(RemoteError(remote.stream, at)))]
        ELSE IF remote.bind # "ok"
        THEN [calls |-> draft.calls \o <<insert, bind>>,
              outcome |-> Threw(normalizeYoutubeError(RemoteError(remote.bind, at + 1)))]
        ELSE [calls |-> draft.calls \o <<insert, bind>>, outcome |-> Returned("provisioned")]

LifecycleAnswers ==
    [poll1 : StreamAnswers, testing : TransitionAnswers,
     poll2 : StreamAnswers, live : TransitionAnswers]

ListAnswers == [1..Len(ListRequests) -> {"ok", "incompatible", "notEnabled", "other"}]

ProvisionAnswers ==
    [broadcast : InsertAnswers, stream : InsertAnswers, bind : {"ok", "other"}]

CallProgressBroadcastLifecycle(remote) ==
    /\ applied' = [fn |-> "progressBroadcastLifecycle", args |-> remote,
                   result |-> progressBroadcastLifecycle(remote)]
    /\ UNCHANGED <<database, secrets, ipc, repo, events, terminalWrites, activeSessions, active, child, killCalls,
                   clipFile, clipPrepared, clipRemovals, completeAttempts, graceTimer,
                   startPc, stopPc, stopReason, durations, inflight, pollCount, lastCall>>

CallListReusableBroadcasts(answers) ==
    /\ applied' = [fn |-> "listReusableBroadcasts", args |-> answers,
                   result |-> listReusableBroadcasts(answers)]
    /\ UNCHANGED <<database, secrets, ipc, repo, events, terminalWrites, activeSessions, active, child, killCalls,
                   clipFile, clipPrepared, clipRemovals, completeAttempts, graceTimer,
                   startPc, stopPc, stopReason, durations, inflight, pollCount, lastCall>>

CallCreateDraftBroadcast(answer) ==
    /\ applied' = [fn |-> "createDraftBroadcast", args |-> answer,
                   result |-> createDraftBroadcast(answer)]
    /\ UNCHANGED <<database, secrets, ipc, repo, events, terminalWrites, activeSessions, active, child, killCalls,
                   clipFile, clipPrepared, clipRemovals, completeAttempts, graceTimer,
                   startPc, stopPc, stopReason, durations, inflight, pollCount, lastCall>>

CallProvisionForSession(mode, remote) ==
    /\ applied' = [fn |-> "provisionForSession", args |-> <<mode, remote>>,
                   result |-> provisionForSession(mode, remote)]
    /\ UNCHANGED <<database, secrets, ipc, repo, events, terminalWrites, activeSessions, active, child, killCalls,
                   clipFile, clipPrepared, clipRemovals, completeAttempts, graceTimer,
                   startPc, stopPc, stopReason, durations, inflight, pollCount, lastCall>>

YoutubeNext ==
    \/ \E remote \in LifecycleAnswers : CallProgressBroadcastLifecycle(remote)
    \/ \E answers \in ListAnswers : CallListReusableBroadcasts(answers)
    \/ \E answer \in InsertAnswers : CallCreateDraftBroadcast(answer)
    \/ \E mode \in {"create-new", "reuse-existing"}, remote \in ProvisionAnswers :
           CallProvisionForSession(mode, remote)

YoutubeSpec == Init /\ [][YoutubeNext]_vars

----------------------------------------------------------------------------
(* main/ipc.ts: the window subscribes to the events of a session *)

\* events.off(channel, listener): the latest registration of the listener is
\* removed
RECURSIVE off(_, _)
off(registered, listener) ==
    IF registered = <<>> THEN <<>>
    ELSE IF registered[Len(registered)] = listener
    THEN SubSeq(registered, 1, Len(registered) - 1)
    ELSE Append(off(SubSeq(registered, 1, Len(registered) - 1), listener),
                registered[Len(registered)])

\* SessionService.subscribeEvents
subscribeEvents(w, sessionId, listener) ==
    [w EXCEPT !.log.ipc.listeners[sessionId] = Append(@, listener)]

\* a handler that leaves the listener of an earlier request in place
unsubscribeExisting_Keep(w, sessionId) == w

\* the handler's "if (existing) existing()"
unsubscribeExisting(w, sessionId) ==
    IF w.log.ipc.sessionUnsubscribers[sessionId] # 0
    THEN [w EXCEPT !.log.ipc.listeners[sessionId] =
                       off(@, w.log.ipc.sessionUnsubscribers[sessionId])]
    ELSE w

\* the handler of SESSION_SUBSCRIBE_EVENTS
subscribeHandler(w, sessionId) ==
    LET listener == w.log.ipc.listenerCount + 1
        w1 == unsubscribeExisting(w, sessionId)
        w2 == subscribeEvents(w1, sessionId, listener)
    IN  [w2 EXCEPT !.log.ipc.sessionUnsubscribers[sessionId] = listener,
                   !.log.ipc.listenerCount = listener]

\* the window invokes SESSION_SUBSCRIBE_EVENTS
SubscribeEvents(sessionId) ==
    /\ ipc.listenerCount < MaxSubscriptions
    /\ Commit(subscribeHandler(World, sessionId))
    /\ UNCHANGED <<startPc, inflight, pollCount, lastCall>>

\* the window is closed
WindowDestroy ==
    /\ ~ipc.windowDestroyed
    /\ ipc' = [ipc EXCEPT !.windowDestroyed = TRUE]
    /\ UNCHANGED <<database, secrets, repo, events, terminalWrites, activeSessions, active, child, killCalls,
                   clipFile, clipPrepared, clipRemovals, completeAttempts, graceTimer,
                   startPc, stopPc, stopReason, durations, applied, inflight, pollCount,
                   lastCall>>

\* start() calls and subscription requests of the window, in any order
IpcNext ==
    \/ \E s \in SessionIds : StartBegin(s)
    \/ \E s \in SessionIds, ok \in BOOLEAN, leftover \in BOOLEAN : TrimSettled(s, ok, leftover)
    \/ \E s \in SessionIds, o \in ProbeOutcomes : ProbeSettled(s, o)
    \/ \E s \in SessionIds, o \in {"ok", "provisionFail", "spawnFail"} : ProvisionSettled(s, o)
    \/ \E sessionId \in Topics : SubscribeEvents(sessionId)
    \/ WindowDestroy

IpcSpec == Init /\ [][IpcNext]_vars

----------------------------------------------------------------------------
(* packages/shared: sessionConfigSchema, and start() over any configuration *)

\* z.number().int().positive()
positiveInt(x) == x.k = "num" /\ x.v > 0 /\ x.v % MsPerSec = 0

\* stopConditionsSchema: the object and its refinement
stopConditionsSchema(rules) ==
    /\ rules.maxRepeats = undefined \/ positiveInt(rules.maxRepeats)
    /\ rules.maxDurationSec = undefined \/ positiveInt(rules.maxDurationSec)
    /\ rules.endAtIsoUtc = undefined \/ rules.endAtIsoUtc.k = "date"
    /\ \/ truthy(rules.maxRepeats)
       \/ truthy(rules.maxDurationSec)
       \/ rules.endAtIsoUtc # undefined

\* a schema without the refinement on the broadcast mode
modePayloadPresent_Skip(config) == TRUE

\* the superRefine of sessionConfigSchema: no issue is added
modePayloadPresent(config) ==
    /\ ~(config.broadcastMode = "create-new" /\ config.newBroadcast = "undefined")
    /\ ~(config.broadcastMode = "reuse-existing"
          /\ config.existingBroadcastId \in {"undefined", ""})

\* whether sessionConfigSchema.parse(config) returns; rest stands for profileId,
\* videoPath and trim
sessionConfigSchema(config) ==
    /\ config.rest = "valid"
    /\ stopConditionsSchema(config.stop)
    /\ config.newBroadcast # "invalid"
    /\ modePayloadPresent(config)

\* the configurations a caller can pass
Configs ==
    [rest : {"valid", "invalid"},
     stop : [maxRepeats : {undefined, Num(0), Whole(1)},
             maxDurationSec : {undefined, Whole(1)},
             endAtIsoUtc : {undefined, InvalidDate, DateAt(Clock)}],
     broadcastMode : {"create-new", "reuse-existing"},
     existingBroadcastId : {"undefined", "", "broadcast-1"},
     newBroadcast : {"undefined", "invalid", "valid"}]

\* start(config), up to the await of trimClip
StartWith(config) ==
    LET parsed == IF sessionConfigSchema(config) THEN "returned" ELSE "threw"
        w == [World EXCEPT !.applied = [fn |-> "sessionConfigSchema.parse",
                                        args |-> config, result |-> parsed]]
    IN  IF parsed = "threw"
        THEN /\ Commit(w)
             /\ lastCall' = [op |-> "start", sid |-> "none", ret |-> "threw"]
             /\ UNCHANGED <<startPc, inflight, pollCount>>
        ELSE \E s \in SessionIds :
                 /\ NextId(s)
                 /\ Commit(startEnter(w, s))
                 /\ startPc' = [startPc EXCEPT ![s] = "trim"]
                 /\ UNCHANGED <<inflight, pollCount, lastCall>>

ConfigNext == \E config \in Configs : StartWith(config)

ConfigSpec == Init /\ [][ConfigNext]_vars

----------------------------------------------------------------------------
(* packages/shared: redactSensitive over lines that carry an ingest URL *)

\* the sequences over chars of length 1..n
RECURSIVE SeqsUpTo(_, _)
SeqsUpTo(chars, n) ==
    IF n = 0 THEN {}
    ELSE LET shorter == SeqsUpTo(chars, n - 1)
         IN  {<<c>> : c \in chars} \cup shorter \cup {Append(t, c) : t \in shorter, c \in chars}

\* the stream keys of the ingest URLs
StreamKeys == SeqsUpTo(TokenChars, MaxKeyLen)

\* what follows the URL in the line
LineTails == {<<>>, <<" ">>, <<" ", "a">>}

CallRedactSensitive(key, tail) ==
    /\ applied' = [fn |-> "redactSensitive", args |-> [key |-> key, tail |-> tail],
                   result |-> redactSensitive(<<"U">> \o key \o tail)]
    /\ UNCHANGED <<database, secrets, ipc, repo, events, terminalWrites, activeSessions, active, child, killCalls,
                   clipFile, clipPrepared, clipRemovals, completeAttempts, graceTimer,
                   startPc, stopPc, stopReason, durations, inflight, pollCount, lastCall>>

RedactNext == \E key \in StreamKeys, tail \in LineTails : CallRedactSensitive(key, tail)

RedactSpec == Init /\ [][RedactNext]_vars

----------------------------------------------------------------------------
(* Properties *)

\* the variables a stop call may touch besides its own answer
stopVars == <<repo, events, terminalWrites, activeSessions, active, child, killCalls,
              clipFile, clipPrepared, clipRemovals, completeAttempts, graceTimer, startPc,
              stopPc, stopReason, durations, applied, inflight, pollCount>>

\* the events a step appended to the log of s
NewEvents(s) == {events'[s][i] : i \in (Len(events[s]) + 1)..Len(events'[s])}

HasEvent(s, code) == \E i \in 1..Len(events[s]) : events[s][i].code = code

\* C1: the repository receives at most one terminal write per session, and a
\* persisted state of completed or failed never changes again.
C1_SingleTerminalWrite ==
    [][\A s \in SessionIds :
          /\ Len(terminalWrites'[s]) <= 1
          /\ repo[s].state \in TerminalStates => repo'[s].state = repo[s].state]_vars

\* a completed session whose child then exited abnormally and that was then
\* stopped again
C1_Witness ==
    \E s \in SessionIds :
        /\ repo[s].state = "completed"
        /\ terminalWrites[s] = <<"completed">>
        /\ child[s].exit = "nonzero"
        /\ lastCall = [op |-> "stop", sid |-> s, ret |-> "false"]

\* C2: a session whose start returned reaches completed or failed, whether or
\* not anyone calls stop.
C2_EventuallyTerminal ==
    \A s \in SessionIds :
        (startPc[s] = "returned") ~> (repo[s].state \in TerminalStates)

\* a session completed by its stop timer, no manual stop ever called
C2_Witness ==
    \E s \in SessionIds :
        /\ startPc[s] = "returned"
        /\ stopReason[s] = "timer"
        /\ repo[s].state = "completed"
        /\ lastCall.op # "stop"

\* C3: a stop call on a session that is already stopping answers true and
\* changes nothing; over all calls the clip is removed once, the remote complete
\* transition is attempted at most once and completeSession is called once.
C3_SecondStopNoWork ==
    [][\A s \in SessionIds :
          /\ (s \in activeSessions /\ active[s].stopping
              /\ lastCall' # lastCall /\ lastCall'.op = "stop" /\ lastCall'.sid = s)
             => (lastCall'.ret = "true" /\ UNCHANGED stopVars)
          /\ clipRemovals'[s] <= 1
          /\ completeAttempts'[s] <= 1
          /\ Len(SelectSeq(killCalls'[s], LAMBDA k : k = "SIGINT")) <= 1
          /\ stopPc'[s] = "done"
             => (clipRemovals'[s] = 1 /\ terminalWrites'[s] = <<"completed">>)]_vars

\* a second stop answered true while the first was in progress, the first now done
C3_Witness ==
    \E s \in SessionIds :
        /\ lastCall = [op |-> "stop", sid |-> s, ret |-> "true"]
        /\ stopPc[s] = "done"
        /\ completeAttempts[s] = 1
        /\ clipRemovals[s] = 1

\* C4: a stop call for an id that is not in the registry answers false and
\* changes nothing.
C4_UnknownStopNoEffect ==
    [][\A s \in SessionIds :
          (s \notin activeSessions /\ lastCall' # lastCall /\ lastCall'.op = "stop" /\ lastCall'.sid = s)
          => (lastCall'.ret = "false" /\ UNCHANGED stopVars)]_vars

\* stop answered false for a session that had already completed
C4_Witness ==
    \E s \in SessionIds :
        /\ lastCall = [op |-> "stop", sid |-> s, ret |-> "false"]
        /\ repo[s].state = "completed"

\* C5: when a manual stop of a started session has returned, the persisted
\* state is completed.
C5_ManualStopCompletes ==
    \A s \in SessionIds :
        (stopReason[s] = "manual" /\ stopPc[s] = "done") => repo[s].state = "completed"

\* a manual stop that returned although it was called before any poll tick, when
\* the session was still in starting-ffmpeg
C5_Witness ==
    \E s \in SessionIds :
        /\ stopReason[s] = "manual"
        /\ stopPc[s] = "done"
        /\ pollCount[s] = 0
        /\ \E i \in 1..Len(events[s]) :
              events[s][i] = [level |-> "warn", code |-> "INVALID_TRANSITION",
                              detail |-> "stopping"]
        /\ repo[s].state = "completed"

\* C6: an exit with code 0 accepted while the session is active and not stopping
\* leads to completed, with the clip gone and the registry entry removed.
C6_CleanExitCompletes ==
    \A s \in SessionIds :
        (stopReason[s] = "process")
        ~> (repo[s].state = "completed" /\ ~clipFile[s] /\ s \notin activeSessions)

\* a session completed after its child exited with code 0
C6_Witness ==
    \E s \in SessionIds :
        /\ stopReason[s] = "process"
        /\ child[s].exit = "zero"
        /\ repo[s].state = "completed"
        /\ ~clipFile[s]
        /\ s \notin activeSessions

\* C7: an exit with a non-zero code or a signal, while the session is active and
\* not stopping, in that same step marks it failed with FFMPEG_EXIT_ERROR,
\* cancels both timers, removes the clip and removes the registry entry.
C7_AbnormalExitFails ==
    [][\A s \in SessionIds :
          (/\ s \in activeSessions
           /\ ~active[s].stopping
           /\ child[s].state = "running"
           /\ child'[s].state = "closed"
           /\ child'[s].exit = "nonzero")
          => (/\ repo'[s].state = "failed"
              /\ repo'[s].errorCode = "FFMPEG_EXIT_ERROR"
              /\ active'[s].stopTimer # "armed"
              /\ active'[s].pollTimer # "armed"
              /\ ~clipFile'[s]
              /\ s \notin activeSessions')]_vars

\* a session failed by an abnormal exit while its timers were armed
C7_Witness ==
    \E s \in SessionIds :
        /\ repo[s].state = "failed"
        /\ repo[s].errorCode = "FFMPEG_EXIT_ERROR"
        /\ child[s].exit = "nonzero"
        /\ active[s].stopTimer = "cleared"
        /\ active[s].pollTimer = "cleared"
        /\ clipRemovals[s] = 1

\* C8: for a session failed by an abnormal exit, the remote transition to
\* complete is never issued.
C8_NoRemoteCompleteAfterAbnormalExit ==
    \A s \in SessionIds :
        repo[s].errorCode = "FFMPEG_EXIT_ERROR" => completeAttempts[s] = 0

\* a session failed by an abnormal exit on which stop was called afterwards
C8_Witness ==
    \E s \in SessionIds :
        /\ repo[s].errorCode = "FFMPEG_EXIT_ERROR"
        /\ lastCall = [op |-> "stop", sid |-> s, ret |-> "false"]
        /\ completeAttempts[s] = 0

\* C9: once finalized is set, no step changes the persisted state of the session,
\* and the only events still recorded are warnings and ffmpeg log lines.
C9_FinalizedIsFinal ==
    [][\A s \in SessionIds :
          active[s].finalized
          => (/\ repo'[s] = repo[s]
              /\ \A e \in NewEvents(s) : e.level = "warn" \/ e.code = "FFMPEG_LOG")]_vars

\* a finalized session for which a poll result that was in flight has been
\* discarded and a log line recorded after SESSION_COMPLETED
C9_Witness ==
    \E s \in SessionIds :
        /\ active[s].finalized
        /\ pollCount[s] = 1
        /\ inflight[s] = 0
        /\ active[s].lastObservedStreamState = "undefined"
        /\ ~HasEvent(s, "YOUTUBE_POLL_WARN")
        /\ events[s][Len(events[s])].code = "FFMPEG_LOG"
        /\ child[s].state = "closed"

\* C10: a start that threw after creating its session left it failed with
\* SESSION_START_FAILED, not registered, and with no timer armed.
C10_StartFailure ==
    \A s \in SessionIds :
        startPc[s] = "threw"
        => (/\ repo[s].state = "failed"
            /\ repo[s].errorCode = "SESSION_START_FAILED"
            /\ events[s][Len(events[s])] =
                   [level |-> "error", code |-> "SESSION_START_FAILED", detail |-> ""]
            /\ s \notin activeSessions
            /\ active[s].stopTimer = "unset"
            /\ active[s].pollTimer = "unset"
            /\ child[s].state = "none")

\* a start that threw at startLoopStream, after the resources were attached
C10_Witness ==
    \E s \in SessionIds :
        /\ startPc[s] = "threw"
        /\ repo[s].broadcastId
        /\ repo[s].state = "failed"

\* C11: a session that reached completed or failed, by stop, by an abnormal exit
\* or by a start failure after trimClip had resolved, has no clip file left.
C11_TerminalClipRemoved ==
    \A s \in SessionIds :
        (repo[s].state \in TerminalStates /\ (startPc[s] = "threw" => clipPrepared[s]))
        => ~clipFile[s]

\* the answer of a start call that sessionConfigSchema rejected
SchemaRejected == [op |-> "start", sid |-> "none", ret |-> "threw"]

\* C12 as stated: a start that fails on an invalid configuration, whether the
\* schema rejects it or no positive duration can be resolved from its stop
\* rules, fails before any media preparation, remote provisioning or subprocess
\* start.
C12_InvalidFailsBeforeAnyWork ==
    [][/\ (lastCall' # lastCall /\ lastCall' = SchemaRejected) => UNCHANGED stopVars
       /\ \A s \in SessionIds :
             durations'[s].resolved.kind = "threw"
             => (/\ ~clipPrepared'[s]
                 /\ ~repo'[s].broadcastId
                 /\ child'[s].state = "none")]_vars

\* C12, amended: a start the schema rejects fails before a session is created
\* and before any media preparation, remote provisioning or subprocess start;
\* a start that fails because no positive duration can be resolved fails after
\* the clip was trimmed and probed, and before any remote provisioning or
\* subprocess start.
C12_InvalidFailsBeforeProvisioning ==
    [][/\ (lastCall' # lastCall /\ lastCall' = SchemaRejected) => UNCHANGED stopVars
       /\ \A s \in SessionIds :
             durations'[s].resolved.kind = "threw"
             => (/\ startPc'[s] = "threw"
                 /\ clipPrepared'[s]
                 /\ ~repo'[s].broadcastId
                 /\ child'[s].state = "none"
                 /\ s \notin activeSessions')]_vars

\* a start whose end time was already past, failed after its clip was prepared,
\* and a later start the schema rejected
C12_Witness ==
    \E s \in SessionIds :
        /\ durations[s].resolved = Threw("Computed effective duration is not positive")
        /\ startPc[s] = "threw"
        /\ clipPrepared[s]
        /\ ~repo[s].broadcastId
        /\ lastCall = SchemaRejected

\* A numeric stop rule is enabled when it is given and is not 0; the end time
\* is enabled when it is given
Enabled(rule) == rule # undefined /\ rule # Num(0)

\* The candidates the stop rules of a call give, rule by rule, for the rules
\* that are enabled: clipDuration x maxRepeats, maxDurationSec, and the whole
\* seconds from now to endAt (not a number when endAt is no date)
EnabledCandidates(input) ==
    LET rules == input.stop
        repeats == IF Enabled(rules.maxRepeats)
                   THEN <<[reason |-> "repeats",
                           durationSec |-> times(input.clipDurationSec, rules.maxRepeats)]>>
                   ELSE <<>>
        maxDuration == IF Enabled(rules.maxDurationSec)
                       THEN <<[reason |-> "maxDuration", durationSec |-> rules.maxDurationSec]>>
                       ELSE <<>>
        endAt == IF rules.endAtIsoUtc = undefined THEN <<>>
                 ELSE IF rules.endAtIsoUtc = InvalidDate
                 THEN <<[reason |-> "endAt", durationSec |-> NaN]>>
                 ELSE <<[reason |-> "endAt",
                         durationSec |->
                             Whole((rules.endAtIsoUtc.v - input.nowUtcMs) \div MsPerSec)]>>
    IN  repeats \o maxDuration \o endAt

Positive(x) == isFinite(x) /\ x.v > 0

\* C13: for a clip duration > 0 and a non-empty set of enabled stop rules whose
\* candidates are all positive, computeEffectiveDuration returns the smallest
\* candidate as effectiveDurationSec together with exactly those candidates;
\* with no rule enabled it fails.
C13_ResolverPicksMinimum ==
    applied.fn = "computeEffectiveDuration"
    => LET input == applied.args
           enabled == EnabledCandidates(input)
           result == applied.result
       IN  /\ Len(enabled) = 0 => result.kind = "threw"
           /\ (/\ Positive(input.clipDurationSec)
               /\ Len(enabled) > 0
               /\ \A i \in 1..Len(enabled) : Positive(enabled[i].durationSec))
              => (/\ result.kind = "returned"
                  /\ result.value.candidates = enabled
                  /\ \E i \in 1..Len(enabled) :
                        enabled[i].durationSec = result.value.effectiveDurationSec
                  /\ \A i \in 1..Len(enabled) :
                        result.value.effectiveDurationSec.v <= enabled[i].durationSec.v)

\* a call with all three rules where the end time, two and a half seconds
\* away, gives the smallest candidate: two whole seconds
C13_Witness ==
    /\ applied.fn = "computeEffectiveDuration"
    /\ applied.args = [clipDurationSec |-> Num(2500), nowUtcMs |-> Clock,
                       stop |-> [maxRepeats |-> Whole(3), maxDurationSec |-> Whole(3),
                                 endAtIsoUtc |-> DateAt(Clock + 2500)]]
    /\ applied.result.kind = "returned"
    /\ applied.result.value.effectiveDurationSec = Whole(2)
    /\ Len(applied.result.value.candidates) = 3

\* C14: computeEffectiveDuration never returns a duration that is not positive
\* or not finite: it fails whenever the candidate of an enabled rule is not finite
\* or is <= 0, whenever the smallest candidate is <= 0, and so whenever endAt is
\* at or before now.
C14_ResolverNeverNonPositive ==
    applied.fn = "computeEffectiveDuration"
    => LET input == applied.args
           enabled == EnabledCandidates(input)
           result == applied.result
       IN  /\ result.kind = "returned" => Positive(result.value.effectiveDurationSec)
           /\ (\E i \in 1..Len(enabled) : ~Positive(enabled[i].durationSec))
              => result.kind = "threw"
           /\ (input.stop.endAtIsoUtc.k = "date" /\ input.stop.endAtIsoUtc.v <= input.nowUtcMs)
              => result.kind = "threw"

\* a call with one repeat of a one-second clip and an end time equal to now: the
\* end time's candidate is 0 and the call fails on its final check
C14_Witness ==
    /\ applied.fn = "computeEffectiveDuration"
    /\ applied.args = [clipDurationSec |-> Whole(1), nowUtcMs |-> Clock,
                       stop |-> [maxRepeats |-> Whole(1), maxDurationSec |-> undefined,
                                 endAtIsoUtc |-> DateAt(Clock)]]
    /\ applied.result = Threw("Computed effective duration is not positive")

\* C15: when start has returned, the effectiveDurationSec it returned, the
\* delay of the stop timer it armed and the duration it passed to the looping
\* subprocess are all the duration the resolver selected, and that duration is
\* strictly positive, also for a clip shorter than one second.
C15_DurationIsSelectedMinimum ==
    \A s \in SessionIds :
        startPc[s] = "returned"
        => LET selected == durations[s].resolved.value.effectiveDurationSec
           IN  /\ Positive(selected)
               /\ durations[s].effectiveDurationSec = selected
               /\ durations[s].stopTimerMs = toMs(selected)
               /\ durations[s].ffmpegDurationSec = selected

\* the session lifecycle chain, in the code's names
SessionChain == <<"idle", "preparing-clip", "provisioning-youtube", "starting-ffmpeg",
                  "testing", "live", "stopping", "completed">>

\* to is the immediate successor of from in the chain
ChainSuccessor(from, to) ==
    \E i \in 1..(Len(SessionChain) - 1) : SessionChain[i] = from /\ SessionChain[i + 1] = to

C17_StreamTable ==
    applied.fn = "canTransitionStream"
    => (applied.result
        <=> applied.args \in {<<"ready", "testing">>, <<"ready", "live">>,
                              <<"ready", "complete">>, <<"testing", "live">>,
                              <<"testing", "complete">>, <<"live", "complete">>})

\* the backward call canTransitionStream("live", "testing"), answered false
C17_Witness ==
    applied = [fn |-> "canTransitionStream", args |-> <<"live", "testing">>,
               result |-> FALSE]

\* The transition attempts among a sequence of new events, in order, each with
\* the state the session was in when the attempt was made: every attempt
\* records either STATE_CHANGE or INVALID_TRANSITION, with the target state
RECURSIVE AttemptsFrom(_, _)
AttemptsFrom(state, evs) ==
    IF evs = <<>> THEN <<>>
    ELSE LET e == Head(evs)
         IN  IF e.code \in {"STATE_CHANGE", "INVALID_TRANSITION"}
             THEN <<[from |-> state, to |-> e.detail, event |-> e]>>
                  \o AttemptsFrom(IF e.code = "STATE_CHANGE" THEN e.detail ELSE state,
                                  Tail(evs))
             ELSE AttemptsFrom(state, Tail(evs))

\* the transition attempts a step made for s
Attempts(s) ==
    LET made == AttemptsFrom(IF repo[s].state = "absent" THEN "idle" ELSE repo[s].state,
                             SubSeq(events'[s], Len(events[s]) + 1, Len(events'[s])))
    IN  {made[i] : i \in 1..Len(made)}

C20_StopCancelsTimers ==
    [][\A s \in SessionIds :
          /\ (~active[s].stopping /\ active'[s].stopping)
             => (active'[s].stopTimer # "armed" /\ active'[s].pollTimer # "armed")
          /\ active[s].stopping
             => (/\ active'[s].stopTimer = active[s].stopTimer
                 /\ active'[s].pollTimer = active[s].pollTimer
                 /\ pollCount'[s] = pollCount[s])]_vars

\* a manual stop that is waiting for the child to close, both timers cleared,
\* before the poll interval ever ticked
C20_Witness ==
    \E s \in SessionIds :
        /\ active[s].stopping
        /\ stopReason[s] = "manual"
        /\ stopPc[s] = "waitClose"
        /\ active[s].stopTimer = "cleared"
        /\ active[s].pollTimer = "cleared"
        /\ pollCount[s] = 0

\* C21: when the grace window of a stop elapses and the subprocess has not
\* closed since the SIGINT, the step sends it SIGKILL.
C21_GraceExpiryEscalates ==
    [][\A s \in SessionIds :
          (/\ graceTimer[s] = "armed"
           /\ graceTimer'[s] = "fired"
           /\ child[s].state = "running"
           /\ killCalls[s] = <<"SIGINT">>)
          => killCalls'[s] = <<"SIGINT", "SIGKILL">>]_vars

\* C22: a remote transition to complete that failed during stop is recorded as
\* a warning only: the stop has returned true, the session is completed and was
\* never failed, and its clip and registry entry are released.
C22_RemoteCompleteFailureIsWarning ==
    \A s \in SessionIds :
        \A i \in 1..Len(events[s]) :
            events[s][i].code = "YOUTUBE_COMPLETE_WARN"
            => (/\ events[s][i].level = "warn"
                /\ stopPc[s] = "done"
                /\ repo[s].state = "completed"
                /\ terminalWrites[s] = <<"completed">>
                /\ ~clipFile[s]
                /\ s \notin activeSessions)

\* a manual stop whose remote transition failed, after the child had closed
C22_Witness ==
    \E s \in SessionIds :
        /\ HasEvent(s, "YOUTUBE_COMPLETE_WARN")
        /\ stopReason[s] = "manual"
        /\ child[s].state = "closed"
        /\ repo[s].state = "completed"
        /\ clipRemovals[s] = 1

----------------------------------------------------------------------------
\* the broadcast transitions among the remote calls of a run, in call order
TransitionsAttempted(calls) ==
    SelectSeq(calls, LAMBDA c : c.api = "liveBroadcasts.transition")

\* C23: in a poll tick where the remote ingest reports ready,
\* progressBroadcastLifecycle attempts exactly one remote broadcast transition,
\* the one to testing, and does not attempt the one to live.
C23_ReadyAttemptsOnlyTesting ==
    (/\ applied.fn = "progressBroadcastLifecycle"
     /\ applied.args.poll1 = "ready" /\ applied.args.poll2 = "ready")
    => LET attempted == TransitionsAttempted(applied.result.calls)
       IN  Len(attempted) = 1 /\ attempted[1].arg = "testing"

\* C24: in a poll tick where the remote ingest reports active,
\* progressBroadcastLifecycle attempts exactly one remote broadcast transition,
\* the one to live, and does not attempt the one to testing.
C24_ActiveAttemptsOnlyLive ==
    (/\ applied.fn = "progressBroadcastLifecycle"
     /\ applied.args.poll1 = "active" /\ applied.args.poll2 = "active")
    => LET attempted == TransitionsAttempted(applied.result.calls)
       IN  Len(attempted) = 1 /\ attempted[1].arg = "live"

\* C25: a remote rejection of the ingest poll or of a testing or live
\* transition during a poll tick is recorded as a warn-level session event. The
\* poll callback records a remote failure only in its catch, so the rejection
\* has to reject the promise progressBroadcastLifecycle returns.
C25_RemoteRejectionReachesPollCatch ==
    (/\ applied.fn = "progressBroadcastLifecycle"
     /\ \E i \in 1..Len(applied.result.calls) : applied.result.calls[i].answer = "rejected")
    => applied.result.outcome.kind = "threw"

----------------------------------------------------------------------------
\* C26: after any sequence of subscription requests of the window, at most one
\* forwarding listener is registered on a session's event topic, and it is the
\* one of the latest request (the earlier one was removed before the new one
\* was registered); so no recorded event is sent to the window twice.
C26_OneForwardingListener ==
    /\ \A t \in Topics :
          ipc.listeners[t] = IF ipc.sessionUnsubscribers[t] = 0 THEN <<>>
                             ELSE <<ipc.sessionUnsubscribers[t]>>
    /\ \A i \in 1..Len(ipc.sent) : \A j \in 1..Len(ipc.sent) :
          ipc.sent[i] = ipc.sent[j] => i = j

\* the window subscribed twice to a session all of whose events, some of them
\* recorded by a later step than others, were sent to it
C26_Witness ==
    \E s \in SessionIds :
        /\ ipc.sessionUnsubscribers[s] = 2 /\ ipc.sessionUnsubscribers["unknown"] = 0
        /\ ipc.listeners[s] = <<2>>
        /\ startPc[s] \notin {"none", "trim"}
        /\ Len(ipc.sent) = Len(events[s])

----------------------------------------------------------------------------
\* the remote failures a run caught and did not hand on to its caller: every
\* rejected call of a run that returned, and every rejected call but the last
\* of a run that threw
SwallowedFailures(run) ==
    {i \in 1..Len(run.calls) :
        /\ run.calls[i].answer = "rejected"
        /\ (run.outcome.kind = "returned" \/ i < Len(run.calls))}

\* a step that changes the persisted state of a session records an event for
\* that session
StateChangesAreRecorded ==
    [][\A s \in SessionIds : repo'[s].state # repo[s].state => NewEvents(s) # {}]_vars

\* C27: every change of a session's persisted state comes with a recorded
\* event for that session in the same step, and every swallowed remote failure
\* comes with a warn-level event.
C27_ChangesAndSwallowedFailuresAreRecorded ==
    [][/\ \A s \in SessionIds : repo'[s].state # repo[s].state => NewEvents(s) # {}
       /\ (/\ applied'.fn = "progressBroadcastLifecycle"
           /\ SwallowedFailures(applied'.result) # {})
          => \E s \in SessionIds : \E e \in NewEvents(s) : e.level = "warn"]_vars

----------------------------------------------------------------------------
\* C28: listReusableBroadcasts issues its request variants in the order of the
\* array, at most four of them; it goes on to the next variant only after an
\* "Incompatible parameters" rejection, stops at the first success, throws any
\* other error at once, and throws the last error when every variant was
\* rejected as incompatible.
C28_ListFallsBackOnlyOnIncompatible ==
    applied.fn = "listReusableBroadcasts"
    => LET answers == applied.args
           run == applied.result
           n == Len(run.calls)
       IN  /\ n \in 1..4
           /\ \A i \in 1..n :
                 /\ run.calls[i] = RemoteCall("liveBroadcasts.list", ListRequests[i], answers[i])
                 /\ i < n => answers[i] = "incompatible"
           /\ answers[n] = "ok" => run.outcome.kind = "returned"
           /\ answers[n] \notin {"ok", "incompatible"}
                  => run.outcome = Threw(normalizeYoutubeError(RemoteError(answers[n], n)))
           /\ answers[n] = "incompatible"
                  => /\ n = Len(ListRequests)
                     /\ run.outcome = Threw(RemoteError("incompatible", n))

\* the first variant was rejected as incompatible and the second succeeded
C28_Witness ==
    /\ applied.fn = "listReusableBroadcasts"
    /\ applied.args[1] = "incompatible" /\ applied.args[2] = "ok"
    /\ Len(applied.result.calls) = 2
    /\ applied.result.outcome.kind = "returned"

----------------------------------------------------------------------------
\* the calls of a run to one endpoint of the remote API, in call order
CallsTo(api, calls) == SelectSeq(calls, LAMBDA c : c.api = api)

\* an insert that was issued twice, the second time without contentDetails
RetriedWithoutContentDetails(inserts) ==
    /\ Len(inserts) = 2
    /\ inserts[1].arg = InsertBody(TRUE)
    /\ inserts[2].arg = InsertBody(FALSE)

\* C29: when the remote rejects the broadcast insert of createDraftBroadcast or
\* the stream insert of provisionForSession because of its content settings, the
\* insert is issued once more, without contentDetails.
C29_ContentRejectionIsRetried ==
    /\ (applied.fn = "createDraftBroadcast" /\ applied.args = "content")
       => RetriedWithoutContentDetails(CallsTo("liveBroadcasts.insert", applied.result.calls))
    /\ (/\ applied.fn = "provisionForSession"
        /\ applied.args[1] = "reuse-existing" /\ applied.args[2].stream = "content")
       => RetriedWithoutContentDetails(CallsTo("liveStreams.insert", applied.result.calls))

----------------------------------------------------------------------------
\* at least one stop rule is given
StopConditionPresent(config) ==
    \/ config.stop.maxRepeats # undefined
    \/ config.stop.maxDurationSec # undefined
    \/ config.stop.endAtIsoUtc # undefined

\* the payload of the broadcast mode is given
PayloadOfModePresent(config) ==
    IF config.broadcastMode = "create-new"
    THEN config.newBroadcast # "undefined"
    ELSE config.existingBroadcastId \notin {"undefined", ""}

\* C30: sessionConfigSchema accepts a configuration only if at least one stop
\* condition is present and the payload of its broadcast mode is present
\* (newBroadcast for create-new, a non-empty existingBroadcastId for
\* reuse-existing); start() with a configuration that misses the payload of its
\* mode throws before any session is created.
C30_SchemaRequiresStopAndModePayload ==
    [][applied'.fn = "sessionConfigSchema.parse"
       => LET config == applied'.args
          IN  /\ applied'.result = "returned"
                    => StopConditionPresent(config) /\ PayloadOfModePresent(config)
              /\ ~PayloadOfModePresent(config)
                    => /\ applied'.result = "threw"
                       /\ repo' = repo /\ events' = events /\ startPc' = startPc]_vars

\* start() threw for a configuration that is valid but for the empty
\* existingBroadcastId of its reuse-existing mode, and no session exists
C30_Witness ==
    /\ applied.fn = "sessionConfigSchema.parse"
    /\ applied.args.rest = "valid"
    /\ stopConditionsSchema(applied.args.stop)
    /\ applied.args.broadcastMode = "reuse-existing"
    /\ applied.args.existingBroadcastId = ""
    /\ applied.args.newBroadcast = "undefined"
    /\ applied.result = "threw"
    /\ \A s \in SessionIds : repo[s] = NoRow /\ events[s] = <<>>

----------------------------------------------------------------------------
\* String.prototype.includes
Contains(text, part) ==
    \E i \in 1..(Len(text) - Len(part) + 1) : SubSeq(text, i, i + Len(part) - 1) = part

\* C31: for every ingest URL rtmp(s)://host/app/KEY with a non-empty stream
\* key, of three characters or fewer too, what redactSensitive returns does not
\* contain KEY.
C31_RedactedLineHidesKey ==
    applied.fn = "redactSensitive" => ~Contains(applied.result, applied.args.key)

----------------------------------------------------------------------------
\* the states the STATE_CHANGE events among evs wrote, in order
RECURSIVE ChangedTo(_)
ChangedTo(evs) ==
    IF evs = <<>> THEN <<>>
    ELSE IF Head(evs).code = "STATE_CHANGE"
    THEN <<Head(evs).detail>> \o ChangedTo(Tail(evs))
    ELSE ChangedTo(Tail(evs))

\* the persisted states of s in the course of a step: the state before it (idle
\* for a row createSession inserts), the states its transitions wrote, and the
\* state completeSession or failSession left
WrittenStates(s) ==
    LET before == <<IF repo[s].state = "absent" THEN "idle" ELSE repo[s].state>>
        moved == before \o ChangedTo(SubSeq(events'[s], Len(events[s]) + 1, Len(events'[s])))
    IN  IF repo'[s].state \in {"absent", moved[Len(moved)]} THEN moved
        ELSE Append(moved, repo'[s].state)

\* C32: every change of a session's persisted state is an edge of the session
\* transition table; in particular completed is written only over stopping.
C32_EveryChangeIsAnEdge ==
    [][\A s \in SessionIds :
          LET written == WrittenStates(s)
          IN  \A i \in 1..(Len(written) - 1) :
                  written[i] # written[i + 1]
                  => canTransitionSession(written[i], written[i + 1])]_vars

\* C33: an exit callback that arrives after stop was requested, with any code,
\* marks nothing failed and records no exit or error event, and the session
\* goes on to completed.
C33_ExitAfterStopIsIgnored ==
    /\ [][\A s \in SessionIds :
             (stopReason[s] # "none" /\ child[s].state = "running" /\ child'[s].state = "closed")
             => (/\ repo'[s].state # "failed"
                 /\ \A e \in NewEvents(s) :
                        e.level # "error" /\ e.code \notin {"FFMPEG_EXIT", "FFMPEG_EXIT_ERROR"})]_vars
    /\ \A s \in SessionIds :
           (stopReason[s] # "none" /\ child[s].state = "closed") ~> (repo[s].state = "completed")

\* a session completed after its child, interrupted by stop, exited non-zero
C33_Witness ==
    \E s \in SessionIds :
        /\ stopReason[s] = "manual"
        /\ child[s] = [state |-> "closed", killed |-> TRUE, exit |-> "nonzero"]
        /\ repo[s].state = "completed"
        /\ ~HasEvent(s, "FFMPEG_EXIT_ERROR")

\* C34: a poll result that settles after stop was requested, or after the
\* session was finalized, changes neither the persisted session nor
\* lastObservedStreamState, and is recorded neither as a stream state nor as a
\* state change.
C34_LatePollResultIsDiscarded ==
    [][\A s \in SessionIds :
          (inflight'[s] < inflight[s] /\ (stopReason[s] # "none" \/ active[s].finalized))
          => (/\ repo'[s] = repo[s]
              /\ active'[s].lastObservedStreamState = active[s].lastObservedStreamState
              /\ \A e \in NewEvents(s) : e.code = "YOUTUBE_POLL_WARN")]_vars

\* a stop found the session in starting-ffmpeg, from which testing is an edge;
\* the one poll tick, in flight at that time, has since resolved and left no trace
C34_Witness ==
    \E s \in SessionIds :
        /\ s \in activeSessions /\ active[s].stopping /\ ~active[s].finalized
        /\ repo[s].state = "starting-ffmpeg"
        /\ canTransitionSession(repo[s].state, "testing")
        /\ pollCount[s] = 1 /\ inflight[s] = 0
        /\ active[s].lastObservedStreamState = "undefined"
        /\ ~HasEvent(s, "YOUTUBE_POLL_WARN")

\* C35: a session in the registry has a persisted state that is not terminal
\* and is not finalized; a session persisted as completed or failed is not in
\* the registry and has neither its stop timer nor its poll interval armed.
C35_RegistryHoldsOnlyLiveSessions ==
    \A s \in SessionIds :
        /\ s \in activeSessions
           => (repo[s].state \notin TerminalStates /\ ~active[s].finalized)
        /\ repo[s].state \in TerminalStates
           => (/\ s \notin activeSessions
               /\ active[s].stopTimer # "armed"
               /\ active[s].pollTimer # "armed")

\* a session that was registered with both timers armed and failed when its
\* child exited: out of the registry, timers cancelled
C35_Witness ==
    \E s \in SessionIds :
        /\ startPc[s] = "returned"
        /\ repo[s].state = "failed"
        /\ repo[s].errorCode = "FFMPEG_EXIT_ERROR"
        /\ s \notin activeSessions
        /\ active[s].finalized
        /\ active[s].stopTimer = "cleared"
        /\ active[s].pollTimer = "cleared"

----------------------------------------------------------------------------
(* One service running two sessions at once: both go through start with a
   configuration that resolves, and each is then stopped by the user, by its
   timer or by its child *)

PairOrder == <<"s1", "s2">>

PairIds == {PairOrder[i] : i \in 1..Len(PairOrder)}

PairInit ==
    /\ repo = [s \in PairIds |-> NoRow]
    /\ events = [s \in PairIds |-> <<>>]
    /\ terminalWrites = [s \in PairIds |-> <<>>]
    /\ activeSessions = {}
    /\ active = [s \in PairIds |-> NoActive]
    /\ child = [s \in PairIds |-> NoChild]
    /\ killCalls = [s \in PairIds |-> <<>>]
    /\ clipFile = [s \in PairIds |-> FALSE]
    /\ clipPrepared = [s \in PairIds |-> FALSE]
    /\ clipRemovals = [s \in PairIds |-> 0]
    /\ completeAttempts = [s \in PairIds |-> 0]
    /\ graceTimer = [s \in PairIds |-> "unset"]
    /\ startPc = [s \in PairIds |-> "none"]
    /\ stopPc = [s \in PairIds |-> "none"]
    /\ stopReason = [s \in PairIds |-> "none"]
    /\ durations = [s \in PairIds |-> NoDurations]
    /\ applied = NoCall
    /\ inflight = [s \in PairIds |-> 0]
    /\ pollCount = [s \in PairIds |-> 0]
    /\ lastCall = [op |-> "none", sid |-> "none", ret |-> "none"]
    /\ ipc = [listeners |-> [t \in PairIds |-> <<>>],
              sessionUnsubscribers |-> [t \in PairIds |-> 0],
              listenerCount |-> 0,
              windowDestroyed |-> FALSE,
              sent |-> <<>>]
    /\ database = NewDatabase
    /\ secrets = NewSecrets

\* start(config): createSession hands out the ids in the order of PairOrder
PairStartBegin(s) ==
    /\ \E i \in 1..Len(PairOrder) :
           /\ PairOrder[i] = s
           /\ startPc[s] = "none"
           /\ \A j \in 1..(i - 1) : startPc[PairOrder[j]] # "none"
    /\ Commit(startEnter(World, s))
    /\ startPc' = [startPc EXCEPT ![s] = "trim"]
    /\ UNCHANGED <<inflight, pollCount, lastCall>>

\* a clip of one second, to be played once
PairProbeOutcome ==
    [kind |-> "resolved", clipDurationSec |-> Whole(1), nowUtcMs |-> Clock,
     stop |-> [NoRules EXCEPT !.maxRepeats = Whole(1)]]

PairNext ==
    \/ \E s \in PairIds : PairStartBegin(s)
    \/ \E s \in PairIds : TrimSettled(s, TRUE, TRUE)
    \/ \E s \in PairIds : ProbeSettled(s, PairProbeOutcome)
    \/ \E s \in PairIds : ProvisionSettled(s, "ok")
    \/ \E s \in PairIds : ManualStop(s)
    \/ \E s \in PairIds : TimerFire(s)
    \/ \E s \in PairIds, code \in {"zero", "nonzero"} : ChildClose(s, code)
    \/ \E s \in PairIds : GraceExpire(s)
    \/ \E s \in PairIds, ok \in BOOLEAN : RemoteCompleteSettled(s, ok)

PairSpec == PairInit /\ [][PairNext]_vars

\* what the service holds for one session
SessionView(s) ==
    <<s \in activeSessions, active[s], clipFile[s], repo[s], events[s], child[s],
      graceTimer[s], terminalWrites[s]>>

\* C36: with two sessions active, a step that stops, completes or fails one of
\* them leaves the registry entry, flags, timers, clip, row and event log of the
\* other as they were.
C36_OtherSessionsUntouched ==
    [][\A s \in PairIds : \A t \in PairIds \ {s} :
          (s \in activeSessions /\ t \in activeSessions
           /\ (active'[s] # active[s] \/ repo'[s] # repo[s] \/ s \notin activeSessions'))
          => SessionView(t)' = SessionView(t)]_vars

\* one session failed and out of the registry, the other still registered with
\* its timers armed, its clip on disk and its row starting-ffmpeg
C36_Witness ==
    /\ repo["s1"].state = "failed" /\ "s1" \notin activeSessions
    /\ stopReason["s2"] = "none" /\ "s2" \in activeSessions
    /\ active["s2"].stopTimer = "armed" /\ active["s2"].pollTimer = "armed"
    /\ clipFile["s2"] /\ repo["s2"].state = "starting-ffmpeg"
    /\ ~active["s2"].stopping /\ ~active["s2"].finalized

\* C37: a stop call made while start is awaiting trimClip, probeDurationSeconds
\* or provisionForSession answers false and changes nothing, the position of
\* start included, so start goes on as if the call had not been made.
C37_StopDuringStartIsNoOp ==
    [][\A s \in SessionIds :
          (startPc[s] \in {"trim", "probe", "provision"}
           /\ lastCall' # lastCall /\ lastCall'.op = "stop" /\ lastCall'.sid = s)
          => (/\ lastCall'.ret = "false"
              /\ UNCHANGED <<database, secrets, ipc, repo, events, terminalWrites, activeSessions, active, child,
                             killCalls, clipFile, clipPrepared, clipRemovals, completeAttempts,
                             graceTimer, startPc, stopPc, stopReason, durations, applied,
                             inflight, pollCount>>)]_vars

\* a start that returned with the child running, the session registered and both
\* timers armed, the only stop call so far answered false
C37_Witness ==
    \E s \in SessionIds :
        /\ lastCall = [op |-> "stop", sid |-> s, ret |-> "false"]
        /\ startPc[s] = "returned"
        /\ s \in activeSessions
        /\ child[s].state = "running"
        /\ active[s].stopTimer = "armed" /\ active[s].pollTimer = "armed"
        /\ ~active[s].stopping
        /\ repo[s].state = "starting-ffmpeg"
        /\ HasEvent(s, "SESSION_RUNNING")

\* C38: in a stop of a session with a broadcast id, the remote complete
\* transition is attempted only after SIGINT was sent and the child closed or
\* the grace window expired, and completed is written only after that attempt
\* has settled, never while it is pending.
C38_StopStepsInOrder ==
    \A s \in SessionIds :
        /\ stopPc[s] = "waitClose"
           => (killCalls[s] # <<>> /\ killCalls[s][1] = "SIGINT" /\ completeAttempts[s] = 0)
        /\ completeAttempts[s] > 0
           => (/\ killCalls[s] # <<>> /\ killCalls[s][1] = "SIGINT"
               /\ child[s].state = "closed" \/ graceTimer[s] = "fired")
        /\ stopPc[s] \in {"waitClose", "waitRemote"} => repo[s].state # "completed"
        /\ (repo[s].state = "completed" /\ active[s].broadcastId)
           => (completeAttempts[s] = 1 /\ stopPc[s] = "done")

\* a session with a broadcast id completed after SIGINT, the grace window's
\* expiry without a close, and a remote complete attempt that settled
C38_Witness ==
    \E s \in SessionIds :
        /\ active[s].broadcastId
        /\ stopReason[s] = "timer"
        /\ killCalls[s][1] = "SIGINT"
        /\ graceTimer[s] = "fired"
        /\ completeAttempts[s] = 1
        /\ stopPc[s] = "done"
        /\ terminalWrites[s] = <<"completed">>

----------------------------------------------------------------------------
(* The DatabaseService called by any code: statements, transactions opened
   inside the function of another, functions that return and functions that
   throw *)

\* everything but the database
sessionVars == <<repo, events, terminalWrites, activeSessions, active, child, killCalls,
                 clipFile, clipPrepared, clipRemovals, completeAttempts, graceTimer, startPc,
                 stopPc, stopReason, durations, applied, inflight, pollCount, lastCall, ipc,
                 secrets>>

\* run(sql, params), outside a transaction or inside the function of one
DbRun(row) ==
    /\ database' = dbRun(database, row)
    /\ UNCHANGED sessionVars

\* transaction(fn) is called, outside a transaction or by the function of one
TransactionEnter ==
    /\ Len(database.stack) < MaxDepth
    /\ database' = transactionEnter(database)
    /\ UNCHANGED sessionVars

\* the function of the innermost transaction returns
FnReturn(committed) ==
    /\ database.stack # <<>>
    /\ database' = transactionReturn(database, committed)
    /\ UNCHANGED sessionVars

\* the function of the innermost transaction throws, or lets the error of a
\* nested transaction through
FnThrow ==
    /\ database.stack # <<>>
    /\ database' = transactionCatch(database)
    /\ UNCHANGED sessionVars

TransactionNext ==
    \/ \E row \in Rows : DbRun(row)
    \/ TransactionEnter
    \/ \E committed \in BOOLEAN : FnReturn(committed)
    \/ FnThrow

TransactionSpec == Init /\ [][TransactionNext]_vars

\* C39: when the outermost transaction ends with a throw, the database holds
\* what it held at BEGIN, the file holds the same, and transactionDepth is 0;
\* transactionDepth always counts the transaction calls in progress, and
\* persist never runs while a SQL transaction is open.
C39_OuterThrowRollsBack ==
    [][/\ ~database'.persistedOpen
       /\ database'.transactionDepth = Len(database'.stack)
       /\ (Len(database.stack) = 1 /\ database'.stack = <<>> /\ database'.outcome = "threw")
          => (/\ database'.mem = database.savepoint
              /\ database'.file = database.savepoint
              /\ database'.transactionDepth = 0
              /\ ~database'.open)]_vars

\* an outer transaction that threw after a nested one had returned: rows were
\* written inside it and none of them is left
C39_Witness ==
    /\ database.outcome = "threw"
    /\ database.stack = <<>>
    /\ database.nestedReturned
    /\ database.discarded # {}
    /\ database.mem = database.savepoint
    /\ database.file = database.mem
    /\ database.transactionDepth = 0

----------------------------------------------------------------------------
(* The ResilientSecretStore called by the profile service, one call awaited
   after the other, with a keychain that answers or fails call by call *)

\* everything but the secret store
storeVars == <<repo, events, terminalWrites, activeSessions, active, child, killCalls,
               clipFile, clipPrepared, clipRemovals, completeAttempts, graceTimer, startPc,
               stopPc, stopReason, durations, applied, inflight, pollCount, lastCall, ipc,
               database>>

SetProfileTokens(profileId, tokens, primaryOk) ==
    /\ secrets' = setProfileTokens(secrets, profileId, tokens, primaryOk)
    /\ UNCHANGED storeVars

GetProfileTokens(profileId, primaryOk) ==
    /\ secrets' = [secrets EXCEPT !.got =
                       [profileId |-> profileId,
                        value |-> getProfileTokens(secrets, profileId, primaryOk)]]
    /\ UNCHANGED storeVars

DeleteProfileTokens(profileId, primaryOk) ==
    /\ secrets' = deleteProfileTokens(secrets, profileId, primaryOk)
    /\ UNCHANGED storeVars

SecretNext ==
    \/ \E profileId \in ProfileIds, tokens \in Tokens, primaryOk \in BOOLEAN :
           SetProfileTokens(profileId, tokens, primaryOk)
    \/ \E profileId \in ProfileIds, primaryOk \in BOOLEAN :
           GetProfileTokens(profileId, primaryOk)
    \/ \E profileId \in ProfileIds, primaryOk \in BOOLEAN :
           DeleteProfileTokens(profileId, primaryOk)

SecretSpec == Init /\ [][SecretNext]_vars

\* C40: a getProfileTokens call answers with the tokens of the latest
\* setProfileTokens call that resolved for that profile, whatever was set
\* earlier and whichever keychain calls failed.
C40_GetReturnsLatestSet ==
    [][\A profileId \in ProfileIds :
          (secrets'.got # secrets.got /\ secrets'.got.profileId = profileId
           /\ secrets.lastSet[profileId] # null)
          => secrets'.got.value = secrets.lastSet[profileId]]_vars

====
